---- MODULE Spec2Model ----
(***************************************************************************)
(* Cross-venue arbitrage pipeline of Polymarket_arbitrage:                 *)
(*   event_matcher.py     EventMatcher (find_matches, _evaluate_match)     *)
(*   arbitrage_engine.py  ArbitrageDetector (scan_for_arbitrage)           *)
(*   market_depth.py      MarketDepthAnalyzer (calculate_slippage)         *)
(*                                                                         *)
(* Units.  Python floats are binary64 values, computed here bit for bit    *)
(* (section Python float): strategy scores, weights, confidence scores     *)
(* and thresholds, and every figure market_depth.py computes (mid_price,   *)
(* depth_imbalance, fill prices, slippages, edges).  Quoted prices and     *)
(* level prices are held in cents, c standing for the float nearest        *)
(* c/100 (Price(c)); sizes are whole numbers.  The Decimal costs, edges    *)
(* and slippages of the detector are held in 1e-4.  Deadlines are held     *)
(* in half days; timedelta.days is the floor of the difference in whole    *)
(* days.                                                                   *)
(***************************************************************************)
EXTENDS Integers, Sequences, FiniteSets, TLC

VARIABLES
    confidence_threshold,  \* EventMatcher.confidence_threshold
    match_strategies,      \* EventMatcher.match_strategies: name -> behaviour of the function
    events_a,              \* arguments of the last find_matches call; after step 4 of a
    events_b,              \* cycle, events_a is the cycle's event list and events_b is empty
    evaluated,             \* the _evaluate_match calls of the last call, in order
    matches,               \* list returned by find_matches / handed to scan_for_arbitrage
    opportunities,         \* list returned by the last scan_for_arbitrage
    depth,                 \* OrderbookDepth returned by the last get_market_depth
    request,               \* side and size of the last calculate_slippage call
    estimate,              \* SlippageEstimate it returned
    pc                     \* last operation that completed

\* MarketDepthAnalyzer arbitrage calls
VARIABLES
    depth_a,               \* arguments of the last calculate_arbitrage_slippage call
    depth_b,
    trade_size,
    slippage_results,      \* dict it returned
    limits,                \* target_edge and max_slippage of the last assessment
    assessment             \* dict returned by assess_arbitrage_feasibility

feas_vars == <<depth_a, depth_b, trade_size, slippage_results, limits, assessment>>

\* HumanReviewQueue shared by matcher workers and one consumer
VARIABLES
    pending_reviews,       \* HumanReviewQueue.pending_reviews
    added,                 \* the add_for_review calls completed, in order
    returned,              \* the MatchResults get_next_review returned, in order
    worker_adds,           \* per worker, the number of its add_for_review calls
    consumer               \* the consumer's position in get_next_review and its last call

queue_vars == <<pending_reviews, added, returned, worker_adds, consumer>>

\* the state of the matcher, the detector and the single-book depth calls
core_vars == <<confidence_threshold, match_strategies, events_a, events_b, evaluated,
               matches, opportunities, depth, request, estimate>>

\* MarketListener polling
VARIABLES
    poll_interval,         \* MarketListener.poll_interval, in seconds
    consecutive_errors,    \* MarketListener.consecutive_errors
    poll_log               \* the fetches of the _poll_for_new_markets calls, in order

listener_vars == <<poll_interval, consecutive_errors, poll_log>>

\* ArbitrageDetector thresholds and ArbitrageScout.run_continuous
VARIABLES
    min_edge_threshold,    \* ArbitrageDetector.min_edge_threshold
    max_slippage_tolerance,\* ArbitrageDetector.max_slippage_tolerance
    loop,                  \* position of run_continuous
    cycles_started,        \* run_discovery_cycle calls begun by run_continuous
    cycle_outcomes,        \* how each of them ended, in order
    stop_requested         \* the operator has asked the scan to stop

detector_vars == <<min_edge_threshold, max_slippage_tolerance>>

run_vars == <<loop, cycles_started, cycle_outcomes, stop_requested>>

\* the subgraph fetches behind get_market_depth
VARIABLES
    depth_fetch            \* the get_market_depth call under way or last made: which
                           \* requests failed, its ob_data and its price_levels

\* odds_sequence_monitor.py
VARIABLES
    odds_series,           \* series argument of the last extract_sequences call
    odds_gap,              \* its max_gap_minutes
    odds_sequences,        \* the OddsSequences it returned
    odds_request,          \* threshold_sets and direction of the last evaluation
    odds_stats             \* the ThresholdProgressStats it returned

odds_vars == <<odds_series, odds_gap, odds_sequences, odds_request, odds_stats>>

\* MarketListener.start_listening, its polls and the events they emit
VARIABLES
    known_condition_ids,   \* MarketListener.known_condition_ids
    is_running,            \* MarketListener.is_running
    baseline_ids,          \* the ids initialize_known_markets has loaded
    fetched_ids,           \* the ids of the markets the polls have fetched
    emitted,               \* condition_id of the NewMarketEvents emitted, in order
    start_calls,           \* per start_listening call, where it stands
    polls_started,         \* _poll_for_new_markets calls begun
    enable_subgraph        \* MarketListener.enable_subgraph

listening_vars == <<known_condition_ids, is_running, baseline_ids, fetched_ids, emitted,
                    start_calls, polls_started, enable_subgraph>>

extra_vars == <<depth_fetch, odds_vars, listening_vars>>

\* the state of the components other than those
later_vars == <<feas_vars, queue_vars, listener_vars, detector_vars, run_vars, extra_vars>>

vars == <<confidence_threshold, match_strategies, events_a, events_b, evaluated,
          matches, opportunities, depth, request, estimate, pc, later_vars>>

----------------------------------------------------------------------------
(* Bounds *)

MaxRows == 3

MaxCycles == 5

MaxPolls == 3

MaxWorkers == 2

MaxAdds == 2

MaxEvents == 2
MaxCycleEvents == 3
MaxMatches == 2
MaxRaw == 3

----------------------------------------------------------------------------
(* Small helpers *)

Abs(x) == IF x < 0 THEN -x ELSE x

Min(x, y) == IF x <= y THEN x ELSE y

\* a Python dict is the record of its keys ({} is the empty record) and an
\* Optional value is <<>> for None and <<v>> for v; d.get(key, default)
DictGet(d, key, default) == IF key \in DOMAIN d THEN d[key] ELSE default

\* d[key] = value
DictPut(d, key, value) == [k \in DOMAIN d \cup {key} |-> IF k = key THEN value ELSE d[k]]

Range(seq) == {seq[i] : i \in 1..Len(seq)}

RECURSIVE SeqsUpTo(_, _)
SeqsUpTo(S, n) ==
    IF n = 0 THEN {<<>>}
    ELSE LET shorter == SeqsUpTo(S, n - 1)
         IN  shorter \cup {Append(s, x) : s \in {t \in shorter : Len(t) = n - 1}, x \in S}

----------------------------------------------------------------------------
(* Python float *)

\* Python's float is IEEE 754 binary64, rounding to nearest, ties to even.
\* A float is held as s * m * 2^e: s is its sign (0 for 0.0), m a 53-bit
\* significand 2^52 <= m < 2^53 held in two words of 30 bits, e its exponent.
\* The values of the program stay far from overflow and from the
\* subnormal range, and -0.0 is held as 0.0 (the two compare equal).
Word == 2^30

Wide(hi, lo) == [hi |-> hi, lo |-> lo]

WideZero == Wide(0, 0)

WideCarry(hi, lo) == Wide(hi + lo \div Word, lo % Word)

WideAdd(a, b) == WideCarry(a.hi + b.hi, a.lo + b.lo)

\* a - b for a >= b
WideSub(a, b) ==
    IF a.lo < b.lo THEN Wide(a.hi - b.hi - 1, a.lo - b.lo + Word)
    ELSE Wide(a.hi - b.hi, a.lo - b.lo)

WideLess(a, b) == a.hi < b.hi \/ (a.hi = b.hi /\ a.lo < b.lo)

\* number of bits of n, for 0 <= n < 2^30
BitLen(n) == CHOOSE k \in 0..30 : n < 2^k /\ (k = 0 \/ n >= 2^(k - 1))

WideBitLen(a) == IF a.hi > 0 THEN 30 + BitLen(a.hi) ELSE BitLen(a.lo)

\* a * 2^d, for a result below 2^60
WideShl(a, d) ==
    IF d = 0 THEN a
    ELSE IF d < 30
    THEN Wide(a.hi * 2^d + a.lo \div 2^(30 - d), (a.lo % 2^(30 - d)) * 2^d)
    ELSE Wide(a.lo * 2^(d - 30), 0)

\* the lowest bit set when bits were lost
Jam(v, lost) == IF lost /\ v % 2 = 0 THEN v + 1 ELSE v

\* a shifted right by d bits, the bits shifted out OR-ed into the lowest bit
WideShrJam(a, d) ==
    IF d = 0 THEN a
    ELSE IF d >= 60 THEN Wide(0, IF a = WideZero THEN 0 ELSE 1)
    ELSE IF d >= 30
    THEN Wide(0, Jam(a.hi \div 2^(d - 30), a.lo # 0 \/ a.hi % 2^(d - 30) # 0))
    ELSE Wide(a.hi \div 2^d,
              Jam(a.lo \div 2^d + (a.hi % 2^d) * 2^(30 - d), a.lo % 2^d # 0))

Float(s, e, m) == [s |-> s, e |-> e, m |-> m]

FloatZero == Float(0, 0, WideZero)

\* the significand r rounded out of 53 bits: the next power of two
Carried(s, e, r) ==
    IF r = Wide(2^23, 0) THEN Float(s, e + 1, Wide(2^22, 0)) ELSE Float(s, e, r)

\* q and the two bits below it, to nearest, ties to even
Nearest(q, low) ==
    IF low = 3 \/ (low = 2 /\ q.lo % 2 = 1) THEN WideAdd(q, Wide(0, 1)) ELSE q

\* t: 53 bits of significand and two bits below them
RoundTwoBits(s, e, t) ==
    Carried(s, e, Nearest(Wide(t.hi \div 4, t.lo \div 4 + (t.hi % 4) * 2^28), t.lo % 4))

\* w of len bits
RoundLen(s, e, w, len) ==
    IF len <= 53 THEN Float(s, e - (53 - len), WideShl(w, 53 - len))
    ELSE RoundTwoBits(s, e + len - 53,
                      IF len = 54 THEN WideShl(w, 1) ELSE WideShrJam(w, len - 55))

\* s * w * 2^e rounded to a float.  When the lowest bit of w stands for
\* bits lost before, w has at least 55 bits.
RoundPack(s, e, w) == IF w = WideZero THEN FloatZero ELSE RoundLen(s, e, w, WideBitLen(w))

\* float(n) for an int below 2^30 in size: exact
FromNat(s, n, len) == Float(s, len - 53, WideShl(Wide(0, n), 53 - len))

FromInt(n) ==
    IF n = 0 THEN FloatZero
    ELSE IF n < 0 THEN FromNat(-1, -n, BitLen(-n))
    ELSE FromNat(1, n, BitLen(n))

FloatNeg(x) == Float(-x.s, x.e, x.m)

FloatAbs(x) == Float(x.s * x.s, x.e, x.m)

MagLess(x, y) == x.e < y.e \/ (x.e = y.e /\ WideLess(x.m, y.m))

FloatLess(x, y) ==
    IF x.s # y.s THEN x.s < y.s
    ELSE IF x.s = 1 THEN MagLess(x, y)
    ELSE IF x.s = -1 THEN MagLess(y, x)
    ELSE FALSE

FloatLeq(x, y) == ~FloatLess(y, x)

\* a + b or a - b, for a and b aligned to the exponent e - 6 and a >= b
AddAligned(s, e, a, b, same) ==
    RoundPack(s, e - 6, IF same THEN WideAdd(a, b) ELSE WideSub(a, b))

\* big + small for |big| >= |small|, neither 0.0
AddOrdered(big, small) ==
    AddAligned(big.s, big.e, WideShl(big.m, 6),
               WideShrJam(WideShl(small.m, 6), big.e - small.e), big.s = small.s)

\* x + y
FloatAdd(x, y) ==
    IF x.s = 0 THEN y
    ELSE IF y.s = 0 THEN x
    ELSE AddOrdered(IF MagLess(x, y) THEN y ELSE x, IF MagLess(x, y) THEN x ELSE y)

FloatSub(x, y) == FloatAdd(x, FloatNeg(y))

\* the four digits of a significand in base 2^14
Digits(m) ==
    << m.lo % 2^14, (m.lo \div 2^14) % 2^14, m.lo \div 2^28 + (m.hi % 2^12) * 4,
       m.hi \div 2^12 >>

\* the column sums of the product of two significands
Columns(a, b) ==
    << a[1] * b[1],
       a[1] * b[2] + a[2] * b[1],
       a[1] * b[3] + a[2] * b[2] + a[3] * b[1],
       a[1] * b[4] + a[2] * b[3] + a[3] * b[2] + a[4] * b[1],
       a[2] * b[4] + a[3] * b[3] + a[4] * b[2],
       a[3] * b[4] + a[4] * b[3],
       a[4] * b[4] >>

\* the digits of the product in base 2^14, lowest first, from its columns
RECURSIVE Carry(_, _, _)
Carry(cols, i, carry) ==
    IF i > Len(cols) THEN <<carry>>
    ELSE <<(cols[i] + carry) % 2^14>> \o Carry(cols, i + 1, (cols[i] + carry) \div 2^14)

\* the 106-bit product p shifted right by 50 bits
ProductTop(p) ==
    Wide(p[6] \div 2^10 + p[7] * 2^4 + p[8] * 2^18,
         Jam(p[4] \div 2^8 + p[5] * 2^6 + (p[6] % 2^10) * 2^20,
             p[1] # 0 \/ p[2] # 0 \/ p[3] # 0 \/ p[4] % 2^8 # 0))

\* x * y
FloatMul(x, y) ==
    IF x.s = 0 \/ y.s = 0 THEN FloatZero
    ELSE RoundPack(x.s * y.s, x.e + y.e + 50,
                   ProductTop(Carry(Columns(Digits(x.m), Digits(y.m)), 1, 0)))

\* long division of significands, n more bits of the quotient: acc holds
\* the quotient so far and the remainder
RECURSIVE DivLoop(_, _, _)
DivLoop(acc, d, n) ==
    IF n = 0 THEN acc
    ELSE IF WideLess(WideAdd(acc.r, acc.r), d)
    THEN DivLoop([q |-> WideAdd(acc.q, acc.q), r |-> WideAdd(acc.r, acc.r)], d, n - 1)
    ELSE DivLoop([q |-> WideAdd(WideAdd(acc.q, acc.q), Wide(0, 1)),
                  r |-> WideSub(WideAdd(acc.r, acc.r), d)], d, n - 1)

\* the quotient, its lowest bit set when a remainder is left
Quotient(acc) == Wide(acc.q.hi, Jam(acc.q.lo, acc.r # WideZero))

\* x / y for y other than 0.0
FloatDiv(x, y) ==
    IF x.s = 0 THEN FloatZero
    ELSE RoundPack(x.s * y.s, x.e - y.e - 56,
                   Quotient(DivLoop(IF WideLess(x.m, y.m) THEN [q |-> WideZero, r |-> x.m]
                                    ELSE [q |-> Wide(0, 1), r |-> WideSub(x.m, y.m)],
                                    y.m, 56)))

\* the float a decimal literal n / d denotes (n, d ints): the double nearest
Dec(n, d) == FloatDiv(FromInt(n), FromInt(d))

----------------------------------------------------------------------------
(* event_model.py *)

Venues == {"polymarket", "predyx", "stacker_news"}

MarketTypes == {"binary", "multi_outcome", "continuous"}

NoUrl == ""

Side(name, price, liquidity) ==
    [name |-> name, price |-> price, liquidity |-> liquidity]

Event(id, venue, mtype, deadline, url, sides) ==
    [event_id |-> id, venue |-> venue, market_type |-> mtype, deadline |-> deadline,
     resolution_source_url |-> url, contract_sides |-> sides]

\* liquidity is Optional[float]: <<>> is None, <<x>> is x
Events ==
    { Event("P1", "polymarket", "binary", 10, "u1",
            <<Side("YES", 40, <<>>), Side("NO", 58, <<20000>>)>>),
      Event("P2", "polymarket", "binary", 13, NoUrl,
            <<Side("Yes", 45, <<5000>>), Side("No", 52, <<500>>)>>),
      Event("X1", "predyx", "binary", 10, "u1",
            <<Side("YES", 53, <<20000>>), Side("NO", 50, <<>>)>>),
      Event("X2", "predyx", "binary", 30, "u2",
            <<Side("YES", 38, <<800>>), Side("NO", 40, <<5000>>)>>),
      Event("X3", "predyx", "multi_outcome", 10, "u1",
            <<Side("YES", 30, <<>>), Side("NO", 30, <<>>)>>),
      Event("S1", "stacker_news", "binary", 12, "u2",
            <<Side("YES", 55, <<>>), Side("NO", 45, <<0>>)>>),
      Event("S2", "stacker_news", "binary", 12, "u2",
            <<Side("YES", 60, <<>>), Side("NO", 40, <<>>)>>),
      Event("S3", "stacker_news", "binary", 12, "u2",
            <<Side("YES", 57, <<>>), Side("NO", 43, <<>>)>>) }

EventById(id) == CHOOSE e \in Events : e.event_id = id

\* deadline of an Event built without one (deadline=None)
NoDeadline == -1

\* event_a.deadline - event_b.deadline raises TypeError when one is None
DeadlineRaises(a, b) == a.deadline = NoDeadline \/ b.deadline = NoDeadline

\* timedelta.days of (a - b): whole days, rounded towards minus infinity
DeltaDays(a, b) == (a.deadline - b.deadline) \div 2

----------------------------------------------------------------------------
(* event_matcher.py *)

Strategies ==
    <<"exact_title", "fuzzy_title", "entity_overlap", "semantic_embedding",
      "resolution_criteria", "temporal_alignment">>

StrategyNames == {Strategies[i] : i \in 1..Len(Strategies)}

DefaultConfidenceThreshold == Dec(75, 100)

ReviewConfidence == Dec(9, 10)

\* What a call of a strategy function does: it returns a score (a float),
\* returns None (every function of the source is a body of `pass`), or raises.
Returns(score) == [kind |-> "score", value |-> score]
ReturnsNone == [kind |-> "none", value |-> FloatZero]
Raises == [kind |-> "raise", value |-> FloatZero]

\* strategy_func(event_a, event_b): what the function of the table does
StrategyCall(behaviour, a, b) == behaviour

\* the dispatch table as __init__ builds it
StubStrategies == [n \in StrategyNames |-> ReturnsNone]

weights ==
    [n \in StrategyNames |->
        CASE n = "exact_title" -> Dec(3, 10)
          [] n = "fuzzy_title" -> Dec(2, 10)
          [] n = "entity_overlap" -> Dec(2, 10)
          [] n = "semantic_embedding" -> Dec(15, 100)
          [] n = "resolution_criteria" -> Dec(1, 10)
          [] n = "temporal_alignment" -> Dec(5, 100)]

\* variant of ScoreCounted that also records a score of 0.0
ScoreCountedFromZero(outcome) == outcome.kind = "score" /\ FloatLeq(FloatZero, outcome.value)

\* The try body of the strategy loop: None > 0 raises TypeError inside the
\* try, so a None is skipped exactly as a raising strategy is.
ScoreCounted(outcome) == outcome.kind = "score" /\ FloatLess(FloatZero, outcome.value)

\* variant of StrategyAborts without the try block: a raise leaves the loop
StrategyAbortsOnRaise(outcome) == outcome.kind = "raise"

\* A strategy failure inside the try block never leaves the loop.
StrategyAborts(outcome) == FALSE

RECURSIVE StrategyLoop(_, _, _, _, _, _)
StrategyLoop(table, a, b, i, scores, used) ==
    IF i > Len(Strategies) THEN [scores |-> scores, strategies_used |-> used, raised |-> FALSE]
    ELSE LET name == Strategies[i]
             outcome == StrategyCall(table[name], a, b)
         IN  IF StrategyAborts(outcome)
             THEN [scores |-> scores, strategies_used |-> used, raised |-> TRUE]
             ELSE IF ScoreCounted(outcome)
             THEN StrategyLoop(table, a, b, i + 1, scores @@ (name :> outcome.value),
                               Append(used, name))
             ELSE StrategyLoop(table, a, b, i + 1, scores, used)

\* scores.get(strategy, 0): the int 0 times a weight is 0.0
ScoresGet(scores, name) == IF name \in DOMAIN scores THEN scores[name] ELSE FloatZero

\* sum(...) over weights.items(): the terms are added to the total one by
\* one, in the order of the weights dict, each sum rounded to a float
RECURSIVE WeightedSum(_, _, _)
WeightedSum(scores, i, total) ==
    IF i > Len(Strategies) THEN total
    ELSE WeightedSum(scores, i + 1,
                     FloatAdd(total, FloatMul(ScoresGet(scores, Strategies[i]),
                                              weights[Strategies[i]])))

_detect_risk_factors(a, b) ==
    LET r1 == IF a.resolution_source_url # NoUrl /\ b.resolution_source_url # NoUrl
                 /\ a.resolution_source_url # b.resolution_source_url
              THEN <<"different_resolution_sources">> ELSE <<>>
        r2 == IF Abs(DeltaDays(a, b)) > 7
              THEN <<"deadline_mismatch_gt_week">> ELSE <<>>
        r3 == IF a.market_type # b.market_type
              THEN <<"different_market_types">> ELSE <<>>
    IN  r1 \o r2 \o r3

HumanReviewRequired(final_score, risk_factors, a, b) ==
    \/ FloatLess(final_score, ReviewConfidence)
    \/ Len(risk_factors) > 0
    \/ Abs(DeltaDays(a, b)) > 1

MatchResult(a, b, score, used, risks, review) ==
    [event_a |-> a, event_b |-> b, confidence_score |-> score,
     match_strategies |-> used, risk_factors |-> risks,
     human_review_required |-> review]

\* The call's outcome: raised is TRUE when an exception leaves the function;
\* result is <<>> for None and <<m>> for a MatchResult m.
_evaluate_match(table, a, b) ==
    LET Built(run, final_score, risk_factors) ==
            [raised |-> FALSE,
             result |-> <<MatchResult(a, b, final_score, run.strategies_used, risk_factors,
                            HumanReviewRequired(final_score, risk_factors, a, b))>>]
        Scored(run) ==
            IF run.raised THEN [raised |-> TRUE, result |-> <<>>]
            ELSE IF DOMAIN run.scores = {} THEN [raised |-> FALSE, result |-> <<>>]
            ELSE IF DeadlineRaises(a, b) THEN [raised |-> TRUE, result |-> <<>>]
            ELSE Built(run, WeightedSum(run.scores, 1, FloatZero), _detect_risk_factors(a, b))
    IN  Scored(StrategyLoop(table, a, b, 1, <<>>, <<>>))

\* variant of SameVenue that skips only a pair of one event with itself
SameEvent(a, b) == a.event_id = b.event_id

\* find_matches skips a pair of events of the same venue
SameVenue(a, b) == a.venue = b.venue

\* variant of Accepted that ignores the configured threshold
AcceptedAnyScore(m, threshold) == FloatLess(FloatZero, m.confidence_score)

\* the acceptance test of find_matches on a MatchResult
Accepted(m, threshold) == FloatLeq(threshold, m.confidence_score)

\* The nested loops of find_matches from position (i, j); acc carries the
\* matches appended so far, the _evaluate_match calls made so far, and
\* whether one of them raised (which ends the call).
RECURSIVE FindLoop(_, _, _, _, _, _, _)
FindLoop(table, threshold, ea, eb, i, j, acc) ==
    IF i > Len(ea) THEN acc
    ELSE IF j > Len(eb) THEN FindLoop(table, threshold, ea, eb, i + 1, 1, acc)
    ELSE IF SameVenue(ea[i], eb[j]) THEN FindLoop(table, threshold, ea, eb, i, j + 1, acc)
    ELSE LET Evaluated(r, calls) ==
                 IF r.raised
                 THEN [matches |-> acc.matches, evaluated |-> calls, raised |-> TRUE]
                 ELSE FindLoop(table, threshold, ea, eb, i, j + 1,
                               [matches |-> IF r.result # <<>> /\ Accepted(r.result[1], threshold)
                                            THEN Append(acc.matches, r.result[1])
                                            ELSE acc.matches,
                                evaluated |-> calls, raised |-> FALSE])
             Called(r) ==
                 Evaluated(r, Append(acc.evaluated,
                                     [event_a |-> ea[i], event_b |-> eb[j],
                                      raised |-> r.raised, result |-> r.result]))
         IN  Called(_evaluate_match(table, ea[i], eb[j]))

find_matches(table, threshold, ea, eb) ==
    FindLoop(table, threshold, ea, eb, 1, 1,
             [matches |-> <<>>, evaluated |-> <<>>, raised |-> FALSE])

\* variant of PopFront that takes the newest entry
PopBack(reviews) ==
    [item |-> reviews[Len(reviews)], rest |-> SubSeq(reviews, 1, Len(reviews) - 1)]

\* HumanReviewQueue: pending_reviews.pop(0)
PopFront(reviews) == [item |-> Head(reviews), rest |-> Tail(reviews)]

\* pending_reviews.append(match_result): one list operation
add_for_review(reviews, match_result) == Append(reviews, match_result)

----------------------------------------------------------------------------
(* arbitrage_engine.py.  The module never imports the name datetime.  An   *)
(* interpreter that evaluates annotations when the class body runs raises  *)
(* NameError on `detected_at: datetime` (line 48) while importing the      *)
(* module, and no detector exists.  One that evaluates them lazily imports *)
(* the module, and `datetime.utcnow()` (line 181) raises NameError each    *)
(* time an ArbitrageOpportunity is about to be built.  The definitions     *)
(* below are the methods of the imported class: under either interpreter   *)
(* no ArbitrageOpportunity is ever built.                                  *)

ConfidenceFloor == Dec(7, 10)

DefaultMinEdgeThreshold == 200

DefaultMaxSlippageTolerance == 100

\* A threshold as the detector holds it, value in 1e-4: the Decimal of the
\* defaults, or the float ArbitrageScout hands over from its configuration.
AsDecimal(v) == [value |-> v, float |-> FALSE]
AsFloat(v) == [value |-> v, float |-> TRUE]

\* sign of float(x) - x for the configured values x: the binary64 nearest
\* to 0.02 and to 0.01 lies above the decimal, that of their negatives below
FloatExcess(v) ==
    CASE v \in {200, 100} -> 1
      [] v \in {-200, -100} -> -1
      [] v = 0 -> 0

\* Decimal < threshold and Decimal > threshold: against a float the Decimal
\* is compared with the float's exact value
DecimalLess(d, threshold) ==
    \/ d < threshold.value
    \/ d = threshold.value /\ threshold.float /\ FloatExcess(threshold.value) > 0

DecimalGreater(d, threshold) ==
    \/ d > threshold.value
    \/ d = threshold.value /\ threshold.float /\ FloatExcess(threshold.value) < 0

One == 10000

\* venue_fees.get(venue, {}) with the .get defaults of _calculate_total_cost:
\* trading_fee in hundredths, gas_estimate and network_fee in 1e-4
venue_fees(venue) ==
    CASE venue = "polymarket" -> [trading_fee |-> 2, gas_estimate |-> 50, network_fee |-> 0]
      [] venue = "predyx" -> [trading_fee |-> 1, gas_estimate |-> 0, network_fee |-> 1]
      [] OTHER -> [trading_fee |-> 0, gas_estimate |-> 0, network_fee |-> 0]

_calculate_total_cost(base_price, venue) ==
    LET fees == venue_fees(venue)
    IN  base_price * (100 + fees.trading_fee) + fees.gas_estimate + fees.network_fee

\* str.upper() on the side names that occur
Upper(name) ==
    CASE name \in {"YES", "Yes", "yes"} -> "YES"
      [] name \in {"NO", "No", "no"} -> "NO"
      [] OTHER -> name

\* Optional[ContractSide]: <<>> is None
RECURSIVE FindSideFrom(_, _, _)
FindSideFrom(sides, side, i) ==
    IF i > Len(sides) THEN <<>>
    ELSE IF Upper(sides[i].name) = Upper(side) THEN <<sides[i]>>
    ELSE FindSideFrom(sides, side, i + 1)

_find_contract_side(event, side) == FindSideFrom(event.contract_sides, side, 1)

\* `not contract_side.liquidity`: None or 0
NoLiquidity(cs) == cs.liquidity = <<>> \/ cs.liquidity[1] = 0

_estimate_slippage(cs) ==
    IF NoLiquidity(cs) THEN 50
    ELSE IF cs.liquidity[1] > 10000 THEN 10
    ELSE IF cs.liquidity[1] > 1000 THEN 30
    ELSE 100

\* in tenths of a unit: 10% of the liquidity, capped at 10000
_calculate_max_position(cs) ==
    IF NoLiquidity(cs) THEN 1000
    ELSE Min(cs.liquidity[1], 100000)

\* in sevenths
_calculate_timing_risk(a, b) == Min(Abs(DeltaDays(a, b)), 7)

FloatMin(x, y) == IF FloatLess(y, x) THEN y ELSE x

\* a float
_calculate_resolution_risk(match) ==
    LET base_risk == FloatSub(FromInt(1), match.confidence_score)
        risk_factor_penalty == FloatMul(FromInt(Len(match.risk_factors)), Dec(1, 10))
    IN  FloatMin(FloatAdd(base_risk, risk_factor_penalty), FromInt(1))

\* the no-arbitrage test on the summed leg costs
NoArbitrage(total_cost) == total_cost >= One

GrossEdge(total_cost) == One - total_cost

NetEdge(gross_edge, total_slippage) == gross_edge - total_slippage

\* `gross_edge < self.min_edge_threshold`
EdgeTooSmall(gross_edge, min_edge) == DecimalLess(gross_edge, min_edge)

\* `total_slippage > self.max_slippage_tolerance`
TooMuchSlippage(total_slippage, tolerance) == DecimalGreater(total_slippage, tolerance)

Returned == [raised |-> FALSE, error |-> "none"]
RaisedError(error) == [raised |-> TRUE, error |-> error]

\* The call's outcome.  It returns None when a gate turns the pair down.
\* Past the gates _calculate_timing_risk subtracts the deadlines (TypeError
\* when one is None) and the arguments of ArbitrageOpportunity(...) are
\* evaluated, the last of them datetime.utcnow(): NameError.
_check_binary_arbitrage(match, side_a, side_b, min_edge, tolerance) ==
    LET ca == _find_contract_side(match.event_a, side_a)
        cb == _find_contract_side(match.event_b, side_b)
    IN  IF ca = <<>> \/ cb = <<>> THEN Returned
        ELSE LET cost_a == _calculate_total_cost(ca[1].price, match.event_a.venue)
                 cost_b == _calculate_total_cost(cb[1].price, match.event_b.venue)
                 total_cost == cost_a + cost_b
                 gross_edge == GrossEdge(total_cost)
                 total_slippage == _estimate_slippage(ca[1]) + _estimate_slippage(cb[1])
                 \* computed past the gates and lost when the call raises
                 net_edge == NetEdge(gross_edge, total_slippage)
                 max_position_size == Min(_calculate_max_position(ca[1]),
                                          _calculate_max_position(cb[1]))
                 expected_profit == net_edge * max_position_size
                 timing_risk == _calculate_timing_risk(match.event_a, match.event_b)
                 resolution_risk == _calculate_resolution_risk(match)
             IN  IF NoArbitrage(total_cost) THEN Returned
                 ELSE IF EdgeTooSmall(gross_edge, min_edge) THEN Returned
                 ELSE IF TooMuchSlippage(total_slippage, tolerance) THEN Returned
                 ELSE IF DeadlineRaises(match.event_a, match.event_b)
                 THEN RaisedError("TypeError")
                 ELSE RaisedError("NameError")

\* variant of BelowFloor without a floor
BelowNoFloor(match) == FALSE

\* the confidence gate of scan_for_arbitrage
BelowFloor(match) == FloatLess(match.confidence_score, ConfidenceFloor)

BothBinary(match) ==
    match.event_a.market_type = "binary" /\ match.event_b.market_type = "binary"

\* The loop of scan_for_arbitrage from ms[i].  Neither call of
\* _check_binary_arbitrage is inside a try: its exception ends the scan.
\* A call that returns gives None, so nothing is appended.
RECURSIVE ScanLoop(_, _, _, _, _)
ScanLoop(ms, i, min_edge, tolerance, found) ==
    IF i > Len(ms) THEN [raised |-> FALSE, error |-> "none", opportunities |-> found]
    ELSE IF BelowFloor(ms[i]) \/ ~BothBinary(ms[i])
    THEN ScanLoop(ms, i + 1, min_edge, tolerance, found)
    ELSE LET opp_1 == _check_binary_arbitrage(ms[i], "YES", "NO", min_edge, tolerance)
             opp_2 == _check_binary_arbitrage(ms[i], "NO", "YES", min_edge, tolerance)
         IN  IF opp_1.raised
             THEN [raised |-> TRUE, error |-> opp_1.error, opportunities |-> found]
             ELSE IF opp_2.raised
             THEN [raised |-> TRUE, error |-> opp_2.error, opportunities |-> found]
             ELSE ScanLoop(ms, i + 1, min_edge, tolerance, found)

\* list.sort(key=net_edge, reverse=True): stable, larger net_edge first
RECURSIVE InsertByNetEdge(_, _)
InsertByNetEdge(sorted, o) ==
    IF sorted = <<>> THEN <<o>>
    ELSE IF Head(sorted).net_edge >= o.net_edge
         THEN <<Head(sorted)>> \o InsertByNetEdge(Tail(sorted), o)
         ELSE <<o>> \o sorted

RECURSIVE SortFrom(_, _, _)
SortFrom(os, i, sorted) ==
    IF i > Len(os) THEN sorted
    ELSE SortFrom(os, i + 1, InsertByNetEdge(sorted, os[i]))

SortByNetEdge(os) == SortFrom(os, 1, <<>>)

\* the call's outcome: the sorted list, or the exception that left the loop
scan_for_arbitrage(ms, min_edge, tolerance) ==
    LET Scanned(r) ==
            IF r.raised THEN [raised |-> TRUE, error |-> r.error, opportunities |-> <<>>]
            ELSE [raised |-> FALSE, error |-> "none",
                  opportunities |-> SortByNetEdge(r.opportunities)]
    IN  Scanned(ScanLoop(ms, 1, min_edge, tolerance, <<>>))

----------------------------------------------------------------------------
(* market_depth.py.  The quotes and level prices of a book are whole cents *)
(* and are held in cents: c stands for the float nearest to c / 100.       *)
(* Sizes are floats of whole units, held as integers.  What the code       *)
(* computes from them (mid price, imbalance, average fill price,           *)
(* slippages, edges) is held as the float the code computes.               *)

\* the floats of the whole-cent prices from 0.00 to 1.00
PriceTable == [c \in 0..100 |-> Dec(c, 100)]

\* the float of a price held in cents
Price(c) == PriceTable[c]

\* a float used as a condition: present and not 0.0
TruthyFloat(opt) == opt # <<>> /\ opt[1] # FloatZero

min_level_size == 10

PriceLevel(price, size, cumulative_size) ==
    [price |-> price, size |-> size, cumulative_size |-> cumulative_size]

\* the filter and the BUY / SELL classification, in the order of the input
RECURSIVE LevelsOfSide(_, _, _)
LevelsOfSide(price_levels, side, i) ==
    IF i > Len(price_levels) THEN <<>>
    ELSE IF price_levels[i].totalSize >= min_level_size /\ price_levels[i].side = side
         THEN <<PriceLevel(price_levels[i].price, price_levels[i].totalSize, 0)>>
              \o LevelsOfSide(price_levels, side, i + 1)
         ELSE LevelsOfSide(price_levels, side, i + 1)

\* list.sort by price, stable; descending with reverse=True
RECURSIVE InsertByPrice(_, _, _)
InsertByPrice(sorted, level, descending) ==
    IF sorted = <<>> THEN <<level>>
    ELSE IF (descending /\ Head(sorted).price >= level.price)
            \/ (~descending /\ Head(sorted).price <= level.price)
         THEN <<Head(sorted)>> \o InsertByPrice(Tail(sorted), level, descending)
         ELSE <<level>> \o sorted

RECURSIVE SortByPriceFrom(_, _, _, _)
SortByPriceFrom(levels, i, sorted, descending) ==
    IF i > Len(levels) THEN sorted
    ELSE SortByPriceFrom(levels, i + 1, InsertByPrice(sorted, levels[i], descending),
                         descending)

\* variant of SortByPrice that keeps the levels in the order of the input
KeepInputOrder(levels, descending) == levels

SortByPrice(levels, descending) == SortByPriceFrom(levels, 1, <<>>, descending)

RECURSIVE CumulativeFrom(_, _, _)
CumulativeFrom(levels, i, cumulative) ==
    IF i > Len(levels) THEN <<>>
    ELSE <<PriceLevel(levels[i].price, levels[i].size, cumulative + levels[i].size)>>
         \o CumulativeFrom(levels, i + 1, cumulative + levels[i].size)

_calculate_cumulative_sizes(levels) == CumulativeFrom(levels, 1, 0)

_process_price_levels(price_levels) ==
    [bid_levels |-> _calculate_cumulative_sizes(
                        SortByPrice(LevelsOfSide(price_levels, "BUY", 1), TRUE)),
     ask_levels |-> _calculate_cumulative_sizes(
                        SortByPrice(LevelsOfSide(price_levels, "SELL", 1), FALSE))]

\* `depth.mid_price - level.price <= threshold_range` on a bid level,
\* `level.price - depth.mid_price <= threshold_range` on an ask level
WithinBand(side, price, mid_price, threshold_range) ==
    LET Within(level_price) ==
            FloatLeq(FloatSub(IF side = "bid" THEN mid_price ELSE level_price,
                              IF side = "bid" THEN level_price ELSE mid_price),
                     threshold_range)
    IN  Within(Price(price))

RECURSIVE BidDepthWithin(_, _, _, _)
BidDepthWithin(levels, i, mid_price, threshold_range) ==
    IF i > Len(levels) THEN 0
    ELSE (IF WithinBand("bid", levels[i].price, mid_price, threshold_range)
          THEN levels[i].size ELSE 0)
         + BidDepthWithin(levels, i + 1, mid_price, threshold_range)

RECURSIVE AskDepthWithin(_, _, _, _)
AskDepthWithin(levels, i, mid_price, threshold_range) ==
    IF i > Len(levels) THEN 0
    ELSE (IF WithinBand("ask", levels[i].price, mid_price, threshold_range)
          THEN levels[i].size ELSE 0)
         + AskDepthWithin(levels, i + 1, mid_price, threshold_range)

\* the sizes inside the band add up without rounding
_calculate_depth_within_percentage(bid_levels, ask_levels, mid_price, percentage) ==
    LET Counted(threshold_range) ==
            BidDepthWithin(bid_levels, 1, mid_price, threshold_range)
            + AskDepthWithin(ask_levels, 1, mid_price, threshold_range)
    IN  Counted(FloatMul(mid_price, percentage))

\* the bands of get_market_depth: 0.01, 0.05, 0.10
Band1 == Dec(1, 100)
Band5 == Dec(5, 100)
Band10 == Dec(10, 100)

\* `(best_bid + best_ask) / 2` on two quotes
MidPrice(best_bid, best_ask) ==
    FloatDiv(FloatAdd(Price(best_bid), Price(best_ask)), FromInt(2))

\* a quote or a size used as a condition: present and not 0
Truthy(opt) == opt # <<>> /\ opt[1] # 0

EmptyDepth(market_id) ==
    [market_id |-> market_id, best_bid |-> <<>>, best_ask |-> <<>>, mid_price |-> <<>>,
     bid_levels |-> <<>>, ask_levels |-> <<>>,
     total_bid_depth |-> 0, total_ask_depth |-> 0, depth_imbalance |-> <<>>,
     depth_1pct |-> <<>>, depth_5pct |-> <<>>, depth_10pct |-> <<>>]

\* what lines 118-123 read from ob_data: ob_data.get("best_bid"),
\* ob_data.get("best_ask"), ob_data.get("bid_depth", 0.0) and
\* ob_data.get("ask_depth", 0.0); a stored None stays None (<<>>)
DepthArguments(ob_data) ==
    [best_bid |-> DictGet(ob_data, "best_bid", <<>>),
     best_ask |-> DictGet(ob_data, "best_ask", <<>>),
     bid_depth |-> DictGet(ob_data, "bid_depth", <<0>>),
     ask_depth |-> DictGet(ob_data, "ask_depth", <<0>>)]

\* line 131 raises TypeError on a total depth of None
TotalDepthRaises(data) == data.bid_depth = <<>> \/ data.ask_depth = <<>>

\* _process_price_levels raises on a level it cannot read: KeyError for a
\* level without "price" or "totalSize" (lines 194-195), or without "side"
\* once its size passed the filter (line 204)
LevelsRaise(price_levels) ==
    \E i \in 1..Len(price_levels) :
        \/ "price" \notin DOMAIN price_levels[i]
        \/ "totalSize" \notin DOMAIN price_levels[i]
        \/ /\ price_levels[i].totalSize >= min_level_size
           /\ "side" \notin DOMAIN price_levels[i]

\* variant of HasTotalDepth that wants depth on both sides
HasTotalDepthBothSides(bid_depth, ask_depth) == bid_depth > 0 /\ ask_depth > 0

\* `depth.total_bid_depth > 0 or depth.total_ask_depth > 0`
HasTotalDepth(bid_depth, ask_depth) == bid_depth > 0 \/ ask_depth > 0

\* The depth analysis built from line 115 on, from the arguments read from
\* the market's entry of the order book answer and from the price levels
\* answered.
BuildDepth(market_id, data, price_levels) ==
    LET bid_depth == data.bid_depth[1]
        ask_depth == data.ask_depth[1]
        Built(mid_price, levels, within) ==
            [market_id |-> market_id, best_bid |-> data.best_bid, best_ask |-> data.best_ask,
             mid_price |-> mid_price,
             bid_levels |-> levels.bid_levels, ask_levels |-> levels.ask_levels,
             total_bid_depth |-> bid_depth, total_ask_depth |-> ask_depth,
             depth_imbalance |-> IF HasTotalDepth(bid_depth, ask_depth)
                                 THEN <<FloatDiv(FromInt(bid_depth - ask_depth),
                                                 FromInt(bid_depth + ask_depth))>>
                                 ELSE <<>>,
             depth_1pct |-> within[1], depth_5pct |-> within[2], depth_10pct |-> within[3]]
        \* the three _calculate_depth_within_percentage calls, in order
        Processed(mid_price, levels) ==
            Built(mid_price, levels,
                  [k \in 1..3 |->
                      IF price_levels # <<>> /\ TruthyFloat(mid_price)
                      THEN <<_calculate_depth_within_percentage(
                                 levels.bid_levels, levels.ask_levels, mid_price[1],
                                 <<Band1, Band5, Band10>>[k])>>
                      ELSE <<>>])
    IN  Processed(IF Truthy(data.best_bid) /\ Truthy(data.best_ask)
                  THEN <<MidPrice(data.best_bid[1], data.best_ask[1])>> ELSE <<>>,
                  IF price_levels # <<>> THEN _process_price_levels(price_levels)
                  ELSE [bid_levels |-> <<>>, ask_levels |-> <<>>])

\* What a call returns when the client answers ob and then price_levels; ob
\* is orderbook_data.get(market_id), <<>> when the market is not in it.
get_market_depth(market_id, ob, price_levels) ==
    IF ob = <<>> THEN EmptyDepth(market_id)
    ELSE BuildDepth(market_id, DepthArguments(ob[1]), price_levels)

\* how much of a level the walk takes
FillAtLevel(remaining_size, level) == Min(remaining_size, level.size)

\* estimate.depth_exhausted after the walk
DepthExhausted(remaining_size) == remaining_size > 0

\* the walk over the levels: remaining size, cost and the levels consumed
RECURSIVE WalkLevels(_, _, _, _, _)
WalkLevels(levels, i, remaining_size, total_cost, levels_consumed) ==
    IF i > Len(levels) \/ remaining_size <= 0
    THEN [remaining_size |-> remaining_size, total_cost |-> total_cost,
          levels_consumed |-> levels_consumed]
    ELSE LET fill_at_level == FillAtLevel(remaining_size, levels[i])
         IN  WalkLevels(levels, i + 1, remaining_size - fill_at_level,
                        FloatAdd(total_cost,
                                 FloatMul(FromInt(fill_at_level), Price(levels[i].price))),
                        Append(levels_consumed, <<levels[i].price, fill_at_level>>))

NeutralEstimate(market_id, side, size) ==
    [market_id |-> market_id, side |-> side, nominal_size |-> size,
     average_fill_price |-> <<>>, expected_fill_price |-> <<>>,
     slippage_absolute |-> <<>>, slippage_percentage |-> <<>>,
     price_impact |-> <<>>, liquidity_consumed |-> <<>>,
     can_execute |-> FALSE, max_executable_size |-> <<>>, depth_exhausted |-> FALSE,
     levels_consumed |-> <<>>]

\* the figures of an estimate whose walk had a cost above 0
Filled(neutral, d, expected_price, walk, filled_size, total_available, average_fill_price) ==
    LET Estimated(expected_fill_price, slippage_absolute) ==
            [neutral EXCEPT
               !.expected_fill_price = <<expected_price>>,
               !.average_fill_price = <<average_fill_price>>,
               !.levels_consumed = walk.levels_consumed,
               !.can_execute = (walk.remaining_size = 0),
               !.max_executable_size = <<filled_size>>,
               !.depth_exhausted = DepthExhausted(walk.remaining_size),
               !.slippage_absolute =
                   IF expected_price # 0 THEN <<slippage_absolute>> ELSE <<>>,
               !.slippage_percentage =
                   IF expected_price # 0
                   THEN <<FloatDiv(slippage_absolute, expected_fill_price)>> ELSE <<>>,
               !.price_impact =
                   IF TruthyFloat(d.mid_price)
                   THEN <<FloatDiv(FloatAbs(FloatSub(average_fill_price, d.mid_price[1])),
                                   d.mid_price[1])>>
                   ELSE <<>>,
               !.liquidity_consumed =
                   IF total_available > 0
                   THEN <<FloatDiv(FromInt(filled_size), FromInt(total_available))>>
                   ELSE <<>>]
        Expected(expected_fill_price) ==
            Estimated(expected_fill_price,
                      FloatAbs(FloatSub(average_fill_price, expected_fill_price)))
    IN  Expected(Price(expected_price))

calculate_slippage(d, side, size) ==
    LET levels == IF side = "buy" THEN d.ask_levels ELSE d.bid_levels
        expected_price == IF side = "buy" THEN d.best_ask ELSE d.best_bid
        neutral == NeutralEstimate(d.market_id, side, size)
        total_available == IF side = "buy" THEN d.total_ask_depth ELSE d.total_bid_depth
        Walked(walk) ==
            IF FloatLess(FloatZero, walk.total_cost)
            THEN Filled(neutral, d, expected_price[1], walk, size - walk.remaining_size,
                        total_available,
                        FloatDiv(walk.total_cost, FromInt(size - walk.remaining_size)))
            ELSE [neutral EXCEPT !.expected_fill_price = expected_price]
    IN  IF levels = <<>> \/ expected_price = <<>> THEN neutral
        ELSE Walked(WalkLevels(levels, 1, size, FloatZero, <<>>))

\* `x or 0.0` on an Optional[float]
OrZero(opt) == IF opt = <<>> THEN FloatZero ELSE opt[1]

\* `(depth.mid_price or (best_bid + best_ask) / 2) if best_bid and best_ask
\* else None`, as the conditional expression parses
MidOf(d) ==
    IF Truthy(d.best_bid) /\ Truthy(d.best_ask)
    THEN IF TruthyFloat(d.mid_price) THEN d.mid_price
         ELSE <<MidPrice(d.best_bid[1], d.best_ask[1])>>
    ELSE <<>>

\* variant of CheaperOnA that always buys on the first book
CheaperOnAAlways(mid_a, mid_b) == TRUE

\* `if mid_a < mid_b`: buy on A, sell on B
CheaperOnA(mid_a, mid_b) == FloatLess(mid_a, mid_b)

\* the returned dict: <<>> is {}, <<r>> holds the four keys
calculate_arbitrage_slippage(da, db, size) ==
    LET Legs(buy_on, sell_on) ==
            << [buy_leg |-> calculate_slippage(buy_on, "buy", size),
                sell_leg |-> calculate_slippage(sell_on, "sell", size),
                buy_venue |-> buy_on.market_id, sell_venue |-> sell_on.market_id] >>
        Compared(mid_a, mid_b) ==
            IF mid_a = <<>> \/ mid_b = <<>> THEN <<>>
            ELSE Legs(IF CheaperOnA(mid_a[1], mid_b[1]) THEN da ELSE db,
                      IF CheaperOnA(mid_a[1], mid_b[1]) THEN db ELSE da)
    IN  Compared(MidOf(da), MidOf(db))

\* the constraint strings, without the figures formatted into them
BuyCannotExecute == "Buy leg cannot execute full size"
SellCannotExecute == "Sell leg cannot execute full size"
BuySlippageTooHigh == "Buy leg slippage too high"
SellSlippageTooHigh == "Sell leg slippage too high"
NetEdgeTooLow == "Net edge too low"
MissingCalculations == "Missing slippage calculations"

EmptyAssessment ==
    [feasible |-> FALSE, max_size |-> 0, total_slippage |-> FloatZero,
     net_edge_after_slippage |-> FloatZero, constraints |-> <<>>]

\* variant of Appended that stops at the first failed condition
AppendedFirstOnly(c1, c2, c3, c4, c5) ==
    IF c1 # <<>> THEN c1 ELSE IF c2 # <<>> THEN c2 ELSE IF c3 # <<>> THEN c3
    ELSE IF c4 # <<>> THEN c4 ELSE c5

\* assessment["constraints"] after the five checks, each appending or not
Appended(c1, c2, c3, c4, c5) == c1 \o c2 \o c3 \o c4 \o c5

\* net_edge = (sell average - buy average) / buy average - total_slippage
NetEdgeAfterSlippage(buy_leg, sell_leg, total_slippage) ==
    LET buy_avg == buy_leg.average_fill_price[1]
        sell_avg == sell_leg.average_fill_price[1]
    IN  FloatSub(FloatDiv(FloatSub(sell_avg, buy_avg), buy_avg), total_slippage)

\* variant of Feasible that does not look at the constraints
FeasibleBySizeAndSlippage(constraints, max_size, total_slippage, max_slippage) ==
    /\ max_size > 0
    /\ FloatLeq(total_slippage, FloatMul(max_slippage, FromInt(2)))

\* the final feasibility determination
Feasible(constraints, max_size, total_slippage, max_slippage) ==
    /\ Len(constraints) = 0
    /\ max_size > 0
    /\ FloatLeq(total_slippage, FloatMul(max_slippage, FromInt(2)))

\* variant of MaxSize that reports the nominal size of the buy leg
MaxSizeOfBuyLeg(buy_max, sell_max) == IF Truthy(buy_max) THEN buy_max[1] ELSE 0

\* assessment["max_size"]: the smaller max_executable_size when both legs
\* have one that is not 0, and the initial 0.0 otherwise
MaxSize(buy_max, sell_max) ==
    IF Truthy(buy_max) /\ Truthy(sell_max) THEN Min(buy_max[1], sell_max[1]) ELSE 0

assess_arbitrage_feasibility(results, target_edge, max_slippage) ==
    IF results = <<>>
    THEN [EmptyAssessment EXCEPT !.constraints = <<MissingCalculations>>]
    ELSE LET buy_leg == results[1].buy_leg
             sell_leg == results[1].sell_leg
             c1 == IF ~buy_leg.can_execute THEN <<BuyCannotExecute>> ELSE <<>>
             c2 == IF ~sell_leg.can_execute THEN <<SellCannotExecute>> ELSE <<>>
             max_size == MaxSize(buy_leg.max_executable_size, sell_leg.max_executable_size)
             buy_slippage == OrZero(buy_leg.slippage_percentage)
             sell_slippage == OrZero(sell_leg.slippage_percentage)
             c3 == IF FloatLess(max_slippage, buy_slippage)
                   THEN <<BuySlippageTooHigh>> ELSE <<>>
             c4 == IF FloatLess(max_slippage, sell_slippage)
                   THEN <<SellSlippageTooHigh>> ELSE <<>>
             has_edge == TruthyFloat(buy_leg.average_fill_price)
                         /\ TruthyFloat(sell_leg.average_fill_price)
             Assessed(total_slippage, net_edge, constraints) ==
                 [feasible |-> Feasible(constraints, max_size, total_slippage, max_slippage),
                  max_size |-> max_size,
                  total_slippage |-> total_slippage,
                  net_edge_after_slippage |-> net_edge,
                  constraints |-> constraints]
             Checked(total_slippage, net_edge) ==
                 Assessed(total_slippage, net_edge,
                          Appended(c1, c2, c3, c4,
                                   IF has_edge /\ FloatLess(net_edge, target_edge)
                                   THEN <<NetEdgeTooLow>> ELSE <<>>))
             Summed(total_slippage) ==
                 Checked(total_slippage,
                         IF has_edge
                         THEN NetEdgeAfterSlippage(buy_leg, sell_leg, total_slippage)
                         ELSE FloatZero)
         IN  Summed(FloatAdd(buy_slippage, sell_slippage))

----------------------------------------------------------------------------
(* market_listener.py.  Intervals in seconds. *)

DefaultPollInterval == 120

max_consecutive_errors == 3

MaxPollInterval == 600

\* what client.get_markets() does in one _fetch_recent_markets call: it
\* raises; it returns a response that is falsy or has no 'data'; it returns
\* a response whose 'data' cannot be sliced (None, a dict, a number); it
\* returns a list of markets, or an empty list
FetchRaises == "raises"
FetchNoData == "no_data"
FetchUnsliceable == "unsliceable_data"
FetchData == "data"
FetchEmptyData == "empty_data"

FetchOutcomes == {FetchRaises, FetchNoData, FetchUnsliceable, FetchData, FetchEmptyData}

\* the interval assigned once too many fetches in a row have failed
BackoffInterval(interval) == Min(interval * 2, MaxPollInterval)

\* _fetch_recent_markets: the listener's counters when it returns, and
\* whether the list it returns is non-empty.  A response with 'data' resets
\* the count (line 155) before the slice of line 156 is taken, so that an
\* exception of the slice is counted from 0.
_fetch_recent_markets(interval, errors, fetch) ==
    LET Failed(counted) ==
            [consecutive_errors |-> counted,
             poll_interval |-> IF counted >= max_consecutive_errors
                               THEN BackoffInterval(interval) ELSE interval,
             markets |-> FALSE]
    IN  IF fetch = FetchRaises THEN Failed(errors + 1)
        ELSE IF fetch = FetchUnsliceable THEN Failed(0 + 1)
        ELSE IF fetch \in {FetchData, FetchEmptyData}
        THEN [consecutive_errors |-> 0,
              poll_interval |-> interval,
              markets |-> fetch = FetchData]
        ELSE [consecutive_errors |-> errors, poll_interval |-> interval, markets |-> FALSE]

\* a market of the API's response: its condition_id (Null for None, "" for
\* a market without the key) and whether float() accepts its volume
Null == "null"

ApiMarket(condition_id, volume_is_number) ==
    [condition_id |-> condition_id, volume_is_number |-> volume_is_number]

\* str(market.get('condition_id', ''))
StrOfId(raw) == IF raw = Null THEN "None" ELSE raw

\* the ids initialize_known_markets adds for one page of markets
BaselineOf(markets) ==
    {StrOfId(markets[i].condition_id) :
        i \in {j \in 1..Len(markets) : markets[j].condition_id \notin {"", Null}}}

\* initialize_known_markets on a listener that knows the ids of known: the
\* ids it knows afterwards, the ids the call loaded, and whether the call
\* raised (after the ids of the pages before the exception were added).
\* The coroutine has no await of its own and runs in one piece.
initialize_known_markets(known, baseline) ==
    [known |-> known \cup BaselineOf(baseline.markets),
     loaded |-> BaselineOf(baseline.markets),
     raised |-> baseline.raises]

\* the ids a poll sees in the markets it fetched
IdsOf(markets) == {StrOfId(markets[i].condition_id) : i \in 1..Len(markets)}

\* variant of IsNewMarket that does not consult known_condition_ids
HasConditionId(condition_id, known) == condition_id # ""

\* the test of the polling loop: the market is processed, not skipped
IsNewMarket(condition_id, known) == condition_id # "" /\ condition_id \notin known

\* the markets of a poll from the first one that is processed
RECURSIVE SkipKnown(_, _)
SkipKnown(markets, known) ==
    IF markets = <<>> THEN <<>>
    ELSE IF IsNewMarket(StrOfId(Head(markets).condition_id), known) THEN markets
    ELSE SkipKnown(Tail(markets), known)

\* where a start_listening call stands
NotCalled == [at |-> "not_called", current |-> "", pending |-> <<>>,
              stop_requested |-> FALSE, polled_after_stop |-> FALSE]

\* the callers of start_listening
Callers == {"first", "second"}

\* the positions inside the while loop of start_listening: suspended in
\* _emit_new_market_event (line 265), and in the sleep between two polls
InLoop == {"emitting", "sleeping"}

\* _enrich_with_subgraph: None without enable_subgraph (line 177) and for a
\* condition_id that is falsy (line 182).  For any other market line 185
\* looks up get_market_enrichment on the PolymarketSubgraphClient that
\* __init__ built (line 73); the class has no such method, the
\* AttributeError is raised before anything is awaited, and line 192
\* returns None.  The coroutine never gives up control.
_enrich_with_subgraph(subgraph, market) ==
    IF ~subgraph THEN <<>>
    ELSE IF market.condition_id \in {"", Null} THEN <<>>
    ELSE <<>>

\* a poll at its end, with the errors it leaves
PollOver(known, errors, events) ==
    [at |-> "sleeping", known |-> known, current |-> "", pending |-> <<>>,
     consecutive_errors |-> errors, emitted |-> events]

\* lines 264-265 for the market at the head of rest, whose id is in known:
\* _create_market_event raises on a volume that is not a number, which ends
\* the poll and counts as an error (line 274); otherwise the event goes to
\* the handlers and the poll is suspended in _emit_new_market_event.  With
\* enriched None the event is made from the market of the API (lines
\* 203-205); its condition_id is str(market.get('condition_id', '')) in
\* either case.
CreateAndEmit(rest, known, errors, events, enriched) ==
    IF Head(rest).volume_is_number
    THEN [at |-> "emitting", known |-> known,
          current |-> StrOfId(Head(rest).condition_id), pending |-> Tail(rest),
          consecutive_errors |-> errors,
          emitted |-> Append(events, StrOfId(Head(rest).condition_id))]
    ELSE PollOver(known, errors + 1, events)

\* _poll_for_new_markets from the market at the head of pending up to the
\* point where it next gives up control.  The id of a new market is added
\* to the known set (line 252), _enrich_with_subgraph returns without
\* giving up control (lines 257-259), and the event is created and emitted
\* (lines 264-265).
ContinuePoll(pending, known, errors, events, subgraph) ==
    LET Examined(rest) ==
            IF rest = <<>> THEN PollOver(known, errors, events)
            ELSE CreateAndEmit(rest, known \cup {StrOfId(Head(rest).condition_id)},
                               errors, events,
                               _enrich_with_subgraph(subgraph, Head(rest)))
    IN  Examined(SkipKnown(pending, known))

\* _poll_for_new_markets from its call to the point where it first gives up
\* control: the fetch, then the loop over the markets fetched
_poll_for_new_markets(interval, errors, response, known, events, subgraph) ==
    LET Polled(fetched) ==
            [fetched |-> fetched,
             poll |-> ContinuePoll(IF fetched.markets THEN response.markets ELSE <<>>,
                                   known, fetched.consecutive_errors, events, subgraph),
             entry |-> [fetch |-> response.fetch,
                        interval_before |-> interval,
                        poll_interval |-> fetched.poll_interval,
                        errors_after_fetch |-> fetched.consecutive_errors]]
    IN  Polled(_fetch_recent_markets(interval, errors, response.fetch))

----------------------------------------------------------------------------
(* polymarket_subgraph.py.  A value of a subgraph answer is null, a number  *)
(* or a string that holds a number.                                         *)

JsonNull == [json |-> "null", value |-> 0]
JsonNumber(n) == [json |-> "number", value |-> n]
JsonString(n) == [json |-> "string", value |-> n]

\* `float(v) if v else None`: null and the number 0 are falsy, the string
\* "0" is not
FloatOrNone(v) ==
    IF v.json = "null" \/ (v.json = "number" /\ v.value = 0) THEN <<>> ELSE <<v.value>>

\* what the subgraph does with a request: the request fails (no connection,
\* an error status, a body that is not JSON); the answer carries "errors";
\* the answer has no "data"; its "data" is null; it carries data
AnswerFails == [kind |-> "fails", data |-> <<>>]
AnswerErrors == [kind |-> "errors", data |-> <<>>]
AnswerNoData == [kind |-> "no_data", data |-> <<>>]
AnswerNullData == [kind |-> "null_data", data |-> <<>>]
AnswerData(data) == [kind |-> "data", data |-> data]

\* the request did not bring the data of the venue
FetchFailure(answer) == answer.kind \in {"fails", "errors"}

\* _query_subgraph: RuntimeError for a client without a session (line 93),
\* {} for a failed request and for an answer with "errors" (lines 106, 112),
\* otherwise result.get("data", {}), which is None for "data": null
_query_subgraph(session, answer) ==
    IF ~session THEN [raised |-> TRUE, value |-> <<>>]
    ELSE [raised |-> FALSE,
          value |-> IF answer.kind = "data" THEN <<answer.data>>
                    ELSE IF answer.kind = "null_data" THEN <<>>
                    ELSE << <<>> >>]

\* the entries of orderBooks, spreads, orderFlows and orderFills in the data
\* of the answer; prices, spreads and the flow imbalance in hundredths
OrderBook(market_id, best_bid, best_ask, spread, percentage, bid_depth, ask_depth, update) ==
    [marketId |-> market_id, bestBid |-> best_bid, bestAsk |-> best_ask,
     spread |-> spread, spreadPercentage |-> percentage,
     totalBidDepth |-> bid_depth, totalAskDepth |-> ask_depth, lastUpdate |-> update]

Spread(market_id, avg_spread) == [marketId |-> market_id, avgSpread |-> avg_spread]

OrderFlow(market_id, buy_flow, sell_flow, order_flow_imbalance) ==
    [marketId |-> market_id, buyFlow |-> buy_flow, sellFlow |-> sell_flow,
     orderFlowImbalance |-> order_flow_imbalance]

OrderFill(market_id, price, timestamp) ==
    [marketId |-> market_id, price |-> price, timestamp |-> timestamp]

\* the loop over data.get("orderBooks", []) (lines 335-343): bestBid and
\* bestAsk are not copied into the entry; int(ob["lastUpdate"]) raises on
\* null
RECURSIVE OrderBooksLoop(_, _, _)
OrderBooksLoop(order_books, i, orderbook_lookup) ==
    IF i > Len(order_books) THEN [raised |-> FALSE, lookup |-> orderbook_lookup]
    ELSE IF order_books[i].lastUpdate.json = "null"
    THEN [raised |-> TRUE, lookup |-> orderbook_lookup]
    ELSE OrderBooksLoop(order_books, i + 1,
             DictPut(orderbook_lookup, order_books[i].marketId,
                     [current_spread |-> FloatOrNone(order_books[i].spread),
                      spread_percentage |-> FloatOrNone(order_books[i].spreadPercentage),
                      bid_depth |-> FloatOrNone(order_books[i].totalBidDepth),
                      ask_depth |-> FloatOrNone(order_books[i].totalAskDepth),
                      last_update |-> order_books[i].lastUpdate.value]))

\* the loop over data.get("spreads", []) (lines 346-352), which makes an
\* entry for a market that has none
RECURSIVE SpreadsLoop(_, _, _)
SpreadsLoop(spreads, i, orderbook_lookup) ==
    IF i > Len(spreads) THEN orderbook_lookup
    ELSE SpreadsLoop(spreads, i + 1,
             DictPut(orderbook_lookup, spreads[i].marketId,
                     DictPut(DictGet(orderbook_lookup, spreads[i].marketId, <<>>),
                             "avg_spread", FloatOrNone(spreads[i].avgSpread))))

\* the loop over data.get("orderFlows", []) (lines 355-363), which makes an
\* entry for a market that has none and updates it with the three figures
\* of the flow
RECURSIVE OrderFlowsLoop(_, _, _)
OrderFlowsLoop(order_flows, i, orderbook_lookup) ==
    LET Update(entry, flow) ==
            DictPut(DictPut(DictPut(entry, "order_flow_imbalance",
                                    FloatOrNone(flow.orderFlowImbalance)),
                            "buy_flow", FloatOrNone(flow.buyFlow)),
                    "sell_flow", FloatOrNone(flow.sellFlow))
    IN  IF i > Len(order_flows) THEN orderbook_lookup
        ELSE OrderFlowsLoop(order_flows, i + 1,
                 DictPut(orderbook_lookup, order_flows[i].marketId,
                         Update(DictGet(orderbook_lookup, order_flows[i].marketId, <<>>),
                                order_flows[i])))

\* the loop over data.get("orderFills", []) (lines 366-374), which makes an
\* entry for a market that has none and keeps the first fill of a market:
\* float(fill["price"]) and int(fill["timestamp"]) raise on null
RECURSIVE OrderFillsLoop(_, _, _)
OrderFillsLoop(order_fills, i, orderbook_lookup) ==
    IF i > Len(order_fills) THEN [raised |-> FALSE, lookup |-> orderbook_lookup]
    ELSE IF "last_trade_price"
               \in DOMAIN DictGet(orderbook_lookup, order_fills[i].marketId, <<>>)
    THEN OrderFillsLoop(order_fills, i + 1, orderbook_lookup)
    ELSE IF order_fills[i].price.json = "null" \/ order_fills[i].timestamp.json = "null"
    THEN [raised |-> TRUE, lookup |-> orderbook_lookup]
    ELSE OrderFillsLoop(order_fills, i + 1,
             DictPut(orderbook_lookup, order_fills[i].marketId,
                     DictPut(DictPut(DictGet(orderbook_lookup, order_fills[i].marketId,
                                             <<>>),
                                     "last_trade_price", order_fills[i].price.value),
                             "last_trade_timestamp", order_fills[i].timestamp.value)))

\* get_orderbook_data: the lookup it returns, or that it raised: the
\* RuntimeError of _query_subgraph, AttributeError on data None (line 335),
\* or an exception of the loops
get_orderbook_data(queried) ==
    LET Combined(books) ==
            IF books.raised THEN books
            ELSE OrderFillsLoop(
                     DictGet(queried.value[1], "orderFills", <<>>), 1,
                     OrderFlowsLoop(
                         DictGet(queried.value[1], "orderFlows", <<>>), 1,
                         SpreadsLoop(DictGet(queried.value[1], "spreads", <<>>), 1,
                                     books.lookup)))
    IN  IF queried.raised \/ queried.value = <<>> THEN [raised |-> TRUE, lookup |-> <<>>]
        ELSE Combined(OrderBooksLoop(DictGet(queried.value[1], "orderBooks", <<>>), 1, <<>>))

\* _get_price_levels: data.get("priceLevels", []), and [] after any
\* exception (lines 176-186), that of a client without a session and that
\* of data None included
_get_price_levels(queried) ==
    IF queried.raised \/ queried.value = <<>> THEN <<>>
    ELSE DictGet(queried.value[1], "priceLevels", <<>>)

----------------------------------------------------------------------------
(* odds_sequence_monitor.py.  A DataFrame is the list of its rows, a row a  *)
(* timestamp in minutes and a price in hundredths; NaN is a price too.     *)

DIRECTION_UP == "up"

DIRECTION_DOWN == "down"

\* the price of a row whose price is NaN
NaN == -1

Row(timestamp, price) == [timestamp |-> timestamp, price |-> price]

\* variant of GapExceeded that also splits at a gap of exactly max_gap
GapReached(df, i, max_gap_minutes) ==
    i > 1 /\ df[i].timestamp - df[i - 1].timestamp >= max_gap_minutes

\* df["timestamp"].diff() > max_gap at row i: the first row has no
\* difference (NaT), which compares False
GapExceeded(df, i, max_gap_minutes) ==
    i > 1 /\ df[i].timestamp - df[i - 1].timestamp > max_gap_minutes

\* (timestamp_diff > max_gap).cumsum() at row i
RECURSIVE GroupId(_, _, _)
GroupId(df, i, max_gap_minutes) ==
    IF i = 0 THEN 0
    ELSE GroupId(df, i - 1, max_gap_minutes)
         + (IF GapExceeded(df, i, max_gap_minutes) THEN 1 ELSE 0)

\* the rows of df whose group id is g, in the order of df
RECURSIVE RowsOfGroup(_, _, _, _)
RowsOfGroup(df, i, g, max_gap_minutes) ==
    IF i > Len(df) THEN <<>>
    ELSE (IF GroupId(df, i, max_gap_minutes) = g THEN <<df[i]>> ELSE <<>>)
         \o RowsOfGroup(df, i + 1, g, max_gap_minutes)

\* df.groupby(group_ids): one group per id, ids ascending
RECURSIVE GroupsFrom(_, _, _)
GroupsFrom(df, g, max_gap_minutes) ==
    IF g > GroupId(df, Len(df), max_gap_minutes) THEN <<>>
    ELSE LET group == RowsOfGroup(df, 1, g, max_gap_minutes)
         IN  (IF group # <<>> THEN <<group>> ELSE <<>>)
             \o GroupsFrom(df, g + 1, max_gap_minutes)

split_into_sequences(df, max_gap_minutes) ==
    IF df = <<>> THEN <<>> ELSE GroupsFrom(df, 0, max_gap_minutes)

OddsSequence(identifier, sequence_index, data) ==
    [identifier |-> identifier, sequence_index |-> sequence_index, data |-> data]

\* enumerate(chunks) of one series, from chunk k
RECURSIVE ChunksFrom(_, _, _)
ChunksFrom(identifier, chunks, k) ==
    IF k > Len(chunks) THEN <<>>
    ELSE <<OddsSequence(identifier, k - 1, chunks[k])>>
         \o ChunksFrom(identifier, chunks, k + 1)

\* series is the dict as the list of its (identifier, df) items
RECURSIVE extract_sequences_from(_, _, _)
extract_sequences_from(series, n, max_gap_minutes) ==
    IF n > Len(series) THEN <<>>
    ELSE ChunksFrom(series[n].identifier,
                    split_into_sequences(series[n].df, max_gap_minutes), 1)
         \o extract_sequences_from(series, n + 1, max_gap_minutes)

extract_sequences(series, max_gap_minutes) ==
    extract_sequences_from(series, 1, max_gap_minutes)

\* variant of _meets_threshold with strict comparisons
_meets_threshold_strictly(value, threshold, direction) ==
    IF direction = DIRECTION_UP THEN value > threshold ELSE value < threshold

_meets_threshold(value, threshold, direction) ==
    IF direction = DIRECTION_UP THEN value >= threshold ELSE value <= threshold

\* Optional[int]: <<>> is None; indexes count from 1 here, from 0 in the source
RECURSIVE _find_index(_, _, _, _)
_find_index(prices, threshold, direction, start) ==
    IF start > Len(prices) THEN <<>>
    ELSE IF prices[start] # NaN /\ _meets_threshold(prices[start], threshold, direction)
    THEN <<start>>
    ELSE _find_index(prices, threshold, direction, start + 1)

\* variant of NextStart that looks again at the price that met the threshold
NextStartSame(current_index) == current_index

\* start=current_index + 1
NextStart(current_index) == current_index + 1

\* the loop over thresholds[1:], at threshold k
RECURSIVE LaterThresholds(_, _, _, _, _)
LaterThresholds(prices, thresholds, direction, k, current_index) ==
    IF k > Len(thresholds) THEN TRUE
    ELSE LET next_index == _find_index(prices, thresholds[k], direction,
                                       NextStart(current_index))
         IN  IF next_index = <<>> THEN FALSE
             ELSE LaterThresholds(prices, thresholds, direction, k + 1, next_index[1])

_sequence_hits_thresholds(prices, thresholds, direction) ==
    IF thresholds = <<>> THEN [base_hit |-> FALSE, success |-> FALSE]
    ELSE IF prices = <<>> THEN [base_hit |-> FALSE, success |-> FALSE]
    ELSE LET base_index == _find_index(prices, thresholds[1], direction, 1)
         IN  IF base_index = <<>> THEN [base_hit |-> FALSE, success |-> FALSE]
             ELSE [base_hit |-> TRUE,
                   success |-> LaterThresholds(prices, thresholds, direction, 2,
                                               base_index[1])]

\* sequence.data["price"].tolist()
Prices(data) == [i \in 1..Len(data) |-> data[i].price]

ThresholdProgressStats(threshold_path, direction) ==
    [threshold_path |-> threshold_path, direction |-> direction,
     sequence_base_count |-> 0, sequence_success_count |-> 0,
     event_base_ids |-> {}, event_success_ids |-> {}]

\* the body of `for stats in stats_objects` for one sequence
UpdateStats(stats, sequence, direction) ==
    LET hit == _sequence_hits_thresholds(Prices(sequence.data), stats.threshold_path,
                                         direction)
    IN  IF ~hit.base_hit THEN stats
        ELSE [stats EXCEPT
                !.sequence_base_count = @ + 1,
                !.event_base_ids = @ \cup {sequence.identifier},
                !.sequence_success_count = IF hit.success THEN @ + 1 ELSE @,
                !.event_success_ids = IF hit.success THEN @ \cup {sequence.identifier}
                                      ELSE @]

\* `for sequence in sequences`, from sequence n
RECURSIVE EvaluateFrom(_, _, _, _)
EvaluateFrom(sequences, n, stats_objects, direction) ==
    IF n > Len(sequences) THEN stats_objects
    ELSE EvaluateFrom(sequences, n + 1,
                      [k \in 1..Len(stats_objects) |->
                          UpdateStats(stats_objects[k], sequences[n], direction)],
                      direction)

evaluate_threshold_sets(sequences, threshold_sets, direction) ==
    EvaluateFrom(sequences, 1,
                 [k \in 1..Len(threshold_sets) |->
                     ThresholdProgressStats(threshold_sets[k], direction)],
                 direction)

----------------------------------------------------------------------------
(* Inputs *)

\* what a strategy function can do on a call
Outcomes == {ReturnsNone, Raises, Returns(FloatZero), Returns(Dec(75, 100)), Returns(FromInt(1))}

AllTables == [StrategyNames -> Outcomes]

Table(e, f, n, s, r, t) ==
    [x \in StrategyNames |->
        CASE x = "exact_title" -> e
          [] x = "fuzzy_title" -> f
          [] x = "entity_overlap" -> n
          [] x = "semantic_embedding" -> s
          [] x = "resolution_criteria" -> r
          [] x = "temporal_alignment" -> t]

\* Dispatch tables of the pipeline runs: the source's stubs, and
\* implementations that give confidences on both sides of each gate.  The
\* last four give sums that round to the float next to 0.75, 0.6, 0.9, 0.7.
Profiles ==
    { StubStrategies,
      Table(Returns(FromInt(1)), Returns(FromInt(1)), Returns(FromInt(1)), Returns(FromInt(1)), Returns(FromInt(1)), Returns(FromInt(1))),
      Table(Returns(FromInt(1)), Returns(FromInt(1)), Returns(FromInt(1)), Returns(FromInt(1)), Returns(FromInt(1)), Raises),
      Table(Returns(FromInt(1)), Returns(FromInt(1)), Returns(FromInt(1)), Returns(FromInt(1)), ReturnsNone, Returns(FloatZero)),
      Table(Returns(FromInt(1)), Returns(FromInt(1)), Returns(FromInt(1)), Returns(FloatZero), Returns(FloatZero), Returns(FromInt(1))),
      Table(Returns(FromInt(1)), Returns(FromInt(1)), Returns(FromInt(1)), Raises, Returns(FloatZero), Returns(FromInt(1))),
      Table(Returns(FromInt(1)), Returns(FromInt(1)), Returns(FloatZero), Returns(FromInt(1)), Raises, Returns(FloatZero)),
      Table(Returns(Dec(4, 10)), Returns(Dec(4, 10)), Returns(Dec(4, 10)),
            Returns(Dec(4, 10)), Returns(Dec(4, 10)), Returns(Dec(4, 10))),
      Table(Returns(FloatZero), Returns(FloatZero), Raises, Returns(FloatZero), ReturnsNone, Returns(FloatZero)),
      Table(Returns(Dec(75, 100)), Returns(Dec(75, 100)), Returns(Dec(75, 100)),
            Returns(Dec(75, 100)), Returns(Dec(75, 100)), Returns(Dec(75, 100))),
      Table(Returns(Dec(5, 10)), Returns(FromInt(1)), Returns(Dec(5, 10)),
            Returns(Dec(5, 10)), Returns(Dec(75, 100)), Returns(FloatZero)),
      Table(Returns(FromInt(1)), Returns(Dec(7, 10)), Returns(FromInt(1)),
            Returns(Dec(9, 10)), Returns(FromInt(1)), Returns(Dec(5, 10))),
      Table(Returns(Dec(75, 100)), Returns(Dec(5, 10)), Returns(FromInt(1)),
            Returns(Dec(5, 10)), Returns(FromInt(1)), Returns(FloatZero)) }

LowConfidenceThreshold == Dec(6, 10)

Thresholds == {DefaultConfidenceThreshold, LowConfidenceThreshold}

PipelineEvents == {EventById(id) : id \in {"P1", "P2", "X1", "X2"}}

\* event lists of a discovery cycle: no event occurs twice in one list
EventLists ==
    {l \in SeqsUpTo(PipelineEvents, MaxEvents) :
        \A i, j \in 1..Len(l) : i # j => l[i].event_id # l[j].event_id}

NoDepth == [market_id |-> "none"]

NoRequest == [side |-> "none", size |-> 0]

NoEstimate == [market_id |-> "none"]

NoResults == [market_id |-> "none"]

NoLimits == [target_edge |-> <<>>, max_slippage |-> <<>>]

NoAssessment == [feasible |-> "none"]

\* no arbitrage call of the analyzer has been made
FeasIdle ==
    /\ depth_a = NoDepth
    /\ depth_b = NoDepth
    /\ trade_size = 0
    /\ slippage_results = NoResults
    /\ limits = NoLimits
    /\ assessment = NoAssessment

\* the matcher, detector and analyzer as constructed with the defaults
CoreIdle ==
    /\ confidence_threshold = DefaultConfidenceThreshold
    /\ match_strategies = StubStrategies
    /\ events_a = <<>>
    /\ events_b = <<>>
    /\ evaluated = <<>>
    /\ matches = <<>>
    /\ opportunities = <<>>
    /\ depth = NoDepth
    /\ request = NoRequest
    /\ estimate = NoEstimate

Workers == 1..MaxWorkers

\* the consumer is outside get_next_review and has made no call
ConsumerIdle == [at |-> "idle", empty_at_check |-> FALSE, result |-> <<>>]

\* HumanReviewQueue.__init__
QueueIdle ==
    /\ pending_reviews = <<>>
    /\ added = <<>>
    /\ returned = <<>>
    /\ worker_adds = [w \in Workers |-> 0]
    /\ consumer = ConsumerIdle

\* MarketListener.__init__ with the default poll_interval
ListenerIdle ==
    /\ poll_interval = DefaultPollInterval
    /\ consecutive_errors = 0
    /\ poll_log = <<>>

\* ArbitrageDetector.__init__ with the defaults
DetectorIdle ==
    /\ min_edge_threshold = AsDecimal(DefaultMinEdgeThreshold)
    /\ max_slippage_tolerance = AsDecimal(DefaultMaxSlippageTolerance)

\* min_edge and max_slippage as ArbitrageScout.__init__ reads them from a
\* configuration without these keys
ScoutMinEdge == 200

ScoutMaxSlippage == 100

\* the detector of ArbitrageDetector() and the one ArbitrageScout builds
Detectors ==
    { <<AsDecimal(DefaultMinEdgeThreshold), AsDecimal(DefaultMaxSlippageTolerance)>>,
      <<AsFloat(ScoutMinEdge), AsFloat(ScoutMaxSlippage)>> }

\* the detector as ArbitrageScout.__init__ builds it from such a configuration
ScoutDetector ==
    /\ min_edge_threshold = AsFloat(ScoutMinEdge)
    /\ max_slippage_tolerance = AsFloat(ScoutMaxSlippage)

DetectorBuilt ==
    \E d \in Detectors : min_edge_threshold = d[1] /\ max_slippage_tolerance = d[2]

\* run_continuous has not been called
RunIdle ==
    /\ loop = "not_started"
    /\ cycles_started = 0
    /\ cycle_outcomes = <<>>
    /\ stop_requested = FALSE

NoFetch ==
    [orderbook_failed |-> FALSE, ob_data |-> <<>>, levels_failed |-> FALSE,
     price_levels |-> <<>>]

\* nothing of the later components has run
NoOddsRequest == [threshold_sets |-> <<>>, direction |-> "none"]

\* no odds series has been analysed
OddsIdle ==
    /\ odds_series = <<>>
    /\ odds_gap = 0
    /\ odds_sequences = <<>>
    /\ odds_request = NoOddsRequest
    /\ odds_stats = <<>>

\* no start_listening call has been made
ListeningIdle ==
    /\ known_condition_ids = {}
    /\ is_running = FALSE
    /\ baseline_ids = {}
    /\ fetched_ids = {}
    /\ emitted = <<>>
    /\ start_calls = [t \in Callers |-> NotCalled]
    /\ polls_started = 0
    /\ enable_subgraph = FALSE

ExtraIdle ==
    /\ depth_fetch = NoFetch
    /\ OddsIdle
    /\ ListeningIdle

LaterIdle ==
    FeasIdle /\ QueueIdle /\ ListenerIdle /\ DetectorIdle /\ RunIdle /\ ExtraIdle

----------------------------------------------------------------------------
(* The matcher and the detector of an ArbitrageScout, called directly      *)
(* (FindMatches, DetectArbitrage) and as steps 4 and 5 of one              *)
(* run_discovery_cycle (MatchCrossVenueEvents, DetectArbitrage), whose     *)
(* matches and opportunities are locals of that cycle.                     *)

Init ==
    /\ confidence_threshold \in Thresholds
    /\ match_strategies \in Profiles
    /\ events_a = <<>>
    /\ events_b = <<>>
    /\ evaluated = <<>>
    /\ matches = <<>>
    /\ opportunities = <<>>
    /\ depth = NoDepth
    /\ request = NoRequest
    /\ estimate = NoEstimate
    /\ FeasIdle /\ QueueIdle /\ ListenerIdle /\ RunIdle /\ ExtraIdle
    /\ ScoutDetector
    /\ pc = "init"

\* event lists of a cycle, as step 3 hands them to step 4
CycleEvents == PipelineEvents \cup {EventById("S1")}

CycleLists ==
    {l \in SeqsUpTo(CycleEvents, MaxCycleEvents) :
        \A i, j \in 1..Len(l) : i # j => l[i].event_id # l[j].event_id}

\* list(events_by_venue.keys()): the venues in the order of their first event
RECURSIVE VenueKeys(_, _, _)
VenueKeys(events, i, keys) ==
    IF i > Len(events) THEN keys
    ELSE IF events[i].venue \in Range(keys) THEN VenueKeys(events, i + 1, keys)
    ELSE VenueKeys(events, i + 1, Append(keys, events[i].venue))

\* events_by_venue[venue]
RECURSIVE EventsOfVenueFrom(_, _, _)
EventsOfVenueFrom(events, venue, i) ==
    IF i > Len(events) THEN <<>>
    ELSE (IF events[i].venue = venue THEN <<events[i]>> ELSE <<>>)
         \o EventsOfVenueFrom(events, venue, i + 1)

EventsOfVenue(events, venue) == EventsOfVenueFrom(events, venue, 1)

\* The loop over the venue pairs (i, j), i < j; acc carries all_matches, the
\* _evaluate_match calls made so far and whether a find_matches call raised.
RECURSIVE VenuePairLoop(_, _, _, _, _, _, _)
RECURSIVE AfterVenuePair(_, _, _, _, _, _, _, _)

\* found is what find_matches did on the lists of the venue pair (i, j)
AfterVenuePair(table, threshold, events, venues, i, j, acc, found) ==
    IF found.raised
    THEN [matches |-> acc.matches, evaluated |-> acc.evaluated \o found.evaluated,
          raised |-> TRUE]
    ELSE VenuePairLoop(table, threshold, events, venues, i, j + 1,
                       [matches |-> acc.matches \o found.matches,
                        evaluated |-> acc.evaluated \o found.evaluated,
                        raised |-> FALSE])

VenuePairLoop(table, threshold, events, venues, i, j, acc) ==
    IF i > Len(venues) THEN acc
    ELSE IF j > Len(venues)
    THEN VenuePairLoop(table, threshold, events, venues, i + 1, i + 2, acc)
    ELSE AfterVenuePair(table, threshold, events, venues, i, j, acc,
                        find_matches(table, threshold, EventsOfVenue(events, venues[i]),
                                     EventsOfVenue(events, venues[j])))

\* the review loop of step 4 from all_matches[k]
RECURSIVE QueueForReview(_, _, _)
QueueForReview(reviews, all_matches, k) ==
    IF k > Len(all_matches) THEN reviews
    ELSE IF all_matches[k].human_review_required
    THEN QueueForReview(add_for_review(reviews, all_matches[k]), all_matches, k + 1)
    ELSE QueueForReview(reviews, all_matches, k + 1)

\* found is what the loop over the venue pairs did; an exception of
\* find_matches leaves before the review loop
AfterVenuePairs(found, reviews) ==
    [raised |-> found.raised,
     matches |-> IF found.raised THEN <<>> ELSE found.matches,
     evaluated |-> found.evaluated,
     pending_reviews |-> IF found.raised THEN reviews
                         ELSE QueueForReview(reviews, found.matches, 1)]

\* Step 4
_match_cross_venue_events(table, threshold, events, reviews) ==
    AfterVenuePairs(VenuePairLoop(table, threshold, events, VenueKeys(events, 1, <<>>), 1, 2,
                                  [matches |-> <<>>, evaluated |-> <<>>, raised |-> FALSE]),
                    reviews)

MatchCrossVenueEvents(events) ==
    /\ pc = "init"
    /\ \E r \in {_match_cross_venue_events(match_strategies, confidence_threshold, events,
                                            pending_reviews)} :
           /\ events_a' = events
           /\ events_b' = <<>>
           /\ evaluated' = r.evaluated
           /\ matches' = r.matches
           /\ pending_reviews' = r.pending_reviews
           /\ added' = added \o SubSeq(r.pending_reviews, Len(pending_reviews) + 1,
                                       Len(r.pending_reviews))
           /\ pc' = IF r.raised THEN "raised" ELSE "_match_cross_venue_events"
    /\ opportunities' = <<>>
    /\ UNCHANGED <<confidence_threshold, match_strategies, depth, request, estimate,
                   feas_vars, returned, worker_adds, consumer, listener_vars,
                   detector_vars, run_vars, extra_vars>>

\* EventMatcher.find_matches called on two event lists
FindMatches(ea, eb) ==
    /\ pc = "init"
    /\ LET Completed(r) ==
               /\ events_a' = ea
               /\ events_b' = eb
               /\ evaluated' = r.evaluated
               /\ matches' = r.matches
               /\ pc' = IF r.raised THEN "raised" ELSE "find_matches"
       IN  Completed(find_matches(match_strategies, confidence_threshold, ea, eb))
    /\ opportunities' = <<>>
    /\ UNCHANGED <<confidence_threshold, match_strategies, depth, request, estimate, later_vars>>

\* scan_for_arbitrage of the detector as constructed
ScanForArbitrage(ms) ==
    /\ matches' = ms
    /\ LET Completed(r) ==
               /\ opportunities' = r.opportunities
               /\ pc' = IF r.raised THEN "scan_raised" ELSE "scan_for_arbitrage"
       IN  Completed(scan_for_arbitrage(ms, min_edge_threshold, max_slippage_tolerance))
    /\ UNCHANGED <<confidence_threshold, match_strategies, events_a, events_b, evaluated,
                   depth, request, estimate, later_vars>>

DetectArbitrage ==
    /\ pc \in {"find_matches", "_match_cross_venue_events"}
    /\ ScanForArbitrage(matches)

Next ==
    \/ \E ea \in EventLists, eb \in EventLists : FindMatches(ea, eb)
    \/ \E events \in CycleLists : MatchCrossVenueEvents(events)
    \/ DetectArbitrage

Spec == Init /\ [][Next]_vars

----------------------------------------------------------------------------
(* _evaluate_match on one pair, under every dispatch table *)

InitEval ==
    /\ confidence_threshold = DefaultConfidenceThreshold
    /\ match_strategies \in AllTables
    /\ events_a = <<>>
    /\ events_b = <<>>
    /\ evaluated = <<>>
    /\ matches = <<>>
    /\ opportunities = <<>>
    /\ depth = NoDepth
    /\ request = NoRequest
    /\ estimate = NoEstimate
    /\ LaterIdle
    /\ pc = "init"

EvaluateMatch(a, b) ==
    /\ pc = "init"
    /\ LET Completed(r) ==
               /\ evaluated' = <<[event_a |-> a, event_b |-> b,
                                  raised |-> r.raised, result |-> r.result]>>
               /\ pc' = IF r.raised THEN "raised" ELSE "_evaluate_match"
       IN  Completed(_evaluate_match(match_strategies, a, b))
    /\ events_a' = <<a>>
    /\ events_b' = <<b>>
    /\ UNCHANGED <<confidence_threshold, match_strategies, matches, opportunities,
                   depth, request, estimate, later_vars>>

\* find_matches, the only caller, hands over pairs of different venues:
\* pairs in both orders with deadlines equal, half a day, a day, a day and
\* a half and ten days apart, with equal and different resolution sources
\* and market types
EvalPairs ==
    {p \in Events \X Events :
        /\ ~SameVenue(p[1], p[2])
        /\ {p[1].event_id, p[2].event_id} \in
              {{"P1", "X1"}, {"P1", "X2"}, {"P2", "X1"}, {"P1", "X3"}, {"P1", "S1"}, {"P2", "S1"}}}

NextEval == \E p \in EvalPairs : EvaluateMatch(p[1], p[2])

SpecEval == InitEval /\ [][NextEval]_vars

----------------------------------------------------------------------------
(* scan_for_arbitrage on a list of MatchResults *)

ArbTables ==
    { Table(Returns(FromInt(1)), Returns(FromInt(1)), Returns(FloatZero), Returns(FromInt(1)), Returns(FloatZero), Returns(FloatZero)),
      Table(Returns(FromInt(1)), Returns(FromInt(1)), Returns(FromInt(1)), Returns(FloatZero), Returns(FloatZero), Returns(FloatZero)),
      Table(Returns(FromInt(1)), Returns(FromInt(1)), Returns(FromInt(1)), Returns(FloatZero), Returns(FloatZero), Returns(FromInt(1))),
      Table(Returns(FromInt(1)), Returns(FromInt(1)), Returns(FromInt(1)), Returns(FromInt(1)), Returns(FromInt(1)), Returns(FromInt(1))) }

ArbPairs ==
    { <<EventById("P1"), EventById("X1")>>, <<EventById("P2"), EventById("X2")>>,
      <<EventById("X1"), EventById("P2")>>, <<EventById("X1"), EventById("S1")>>,
      <<EventById("S1"), EventById("S2")>>, <<EventById("S1"), EventById("S3")>>,
      <<EventById("P1"), EventById("X3")>> }

\* MatchResults as _evaluate_match builds them
ArbMatches == {_evaluate_match(t, p[1], p[2]).result[1] : t \in ArbTables, p \in ArbPairs}

MatchLists == SeqsUpTo(ArbMatches, MaxMatches)

InitArb ==
    /\ confidence_threshold = DefaultConfidenceThreshold
    /\ match_strategies = StubStrategies
    /\ events_a = <<>>
    /\ events_b = <<>>
    /\ evaluated = <<>>
    /\ matches = <<>>
    /\ opportunities = <<>>
    /\ depth = NoDepth
    /\ request = NoRequest
    /\ estimate = NoEstimate
    /\ FeasIdle /\ QueueIdle /\ ListenerIdle /\ RunIdle /\ ExtraIdle
    /\ DetectorBuilt
    /\ pc = "init"

ScanMatches(ms) ==
    /\ pc = "init"
    /\ ScanForArbitrage(ms)

NextArb == \E ms \in MatchLists : ScanMatches(ms)

SpecArb == InitArb /\ [][NextArb]_vars

----------------------------------------------------------------------------
(* Properties of the matcher *)

\* C1: every MatchResult returned by find_matches joins events of two
\* different venues, and no pair of one venue is evaluated at all.
C1_CrossVenueOnly ==
    /\ \A m \in Range(matches) : m.event_a.venue # m.event_b.venue
    /\ \A c \in Range(evaluated) : c.event_a.venue # c.event_b.venue

C1_Witness ==
    /\ pc = "find_matches"
    /\ matches # <<>>
    /\ \E a \in Range(events_a), b \in Range(events_b) : a.venue = b.venue

\* the strategies that return a score above zero on the pair of call c
Positive(c) ==
    {n \in StrategyNames :
        LET outcome == StrategyCall(match_strategies[n], c.event_a, c.event_b)
        IN  outcome.kind = "score" /\ FloatLess(FloatZero, outcome.value)}

\* the documented weights, in the documented order
DocumentedWeights == <<Dec(30, 100), Dec(20, 100), Dec(20, 100), Dec(15, 100), Dec(10, 100), Dec(5, 100)>>

Contribution(c, i) ==
    IF Strategies[i] \in Positive(c)
    THEN FloatMul(StrategyCall(match_strategies[Strategies[i]], c.event_a, c.event_b).value,
                  DocumentedWeights[i])
    ELSE FloatZero

\* the sum of the six contributions as floats add up, taken in that order
DocumentedSum(c) ==
    FloatAdd(FloatAdd(FloatAdd(FloatAdd(FloatAdd(Contribution(c, 1), Contribution(c, 2)),
                                        Contribution(c, 3)),
                               Contribution(c, 4)),
                      Contribution(c, 5)),
             Contribution(c, 6))

\* C2: the confidence of a MatchResult is the fixed-weight sum, in float
\* arithmetic, over exactly the strategies that returned a score above zero,
\* and match_strategies lists exactly those strategies, each once.
C2_WeightedSum ==
    \A c \in Range(evaluated) :
        c.result # <<>> =>
            /\ c.result[1].confidence_score = DocumentedSum(c)
            /\ Range(c.result[1].match_strategies) = Positive(c)
            /\ Len(c.result[1].match_strategies) = Cardinality(Positive(c))

C2_Witness ==
    /\ pc = "_evaluate_match"
    /\ evaluated[1].result # <<>>
    /\ \E n \in StrategyNames : match_strategies[n] = Returns(FloatZero)
    /\ \E n \in StrategyNames : match_strategies[n] = ReturnsNone
    /\ \E n \in StrategyNames : match_strategies[n] = Returns(Dec(75, 100))

\* C3: a pair is emitted only with a confidence at or above the matcher's
\* threshold, and a pair no strategy scored yields no MatchResult.
C3_ThresholdGate ==
    /\ \A m \in Range(matches) : ~FloatLess(m.confidence_score, confidence_threshold)
    /\ \A c \in Range(evaluated) :
          /\ Positive(c) = {} => c.result = <<>>
          /\ c.result # <<>> /\ FloatLess(c.result[1].confidence_score, confidence_threshold)
                => c.result[1] \notin Range(matches)

\* a pair scored 0.65, which a threshold of 0.6 lets in, is turned down by
\* the default threshold
C3_Witness ==
    /\ pc = "find_matches"
    /\ matches = <<>>
    /\ confidence_threshold = DefaultConfidenceThreshold
    /\ \E c \in Range(evaluated) :
          /\ c.result # <<>>
          /\ FloatLess(c.result[1].confidence_score, confidence_threshold)
          /\ FloatLeq(LowConfidenceThreshold, c.result[1].confidence_score)

\* the deadlines of a pair lie more than one day (two half days) apart
DeadlinesDifferByMoreThanADay(a, b) == Abs(a.deadline - b.deadline) > 2

DocumentedReviewLevel == Dec(90, 100)

\* C4: human_review_required is true exactly when the confidence is below
\* 0.9, or a risk factor was detected, or the two deadlines differ by more
\* than one day.
C4_HumanReview ==
    \A c \in Range(evaluated) :
        c.result # <<>> =>
            (c.result[1].human_review_required <=>
                \/ FloatLess(c.result[1].confidence_score, DocumentedReviewLevel)
                \/ c.result[1].risk_factors # <<>>
                \/ DeadlinesDifferByMoreThanADay(c.event_a, c.event_b))

\* C5: when a strategy raises, the exception stays inside _evaluate_match,
\* the other strategies are still run, and the confidence is the weighted
\* sum of the strategies that did return a score.
C5_StrategyFailureSkipped ==
    /\ pc # "raised"
    /\ \A c \in Range(evaluated) :
          (\E n \in StrategyNames : match_strategies[n] = Raises) =>
              /\ ~c.raised
              /\ Positive(c) # {} =>
                    /\ c.result # <<>>
                    /\ c.result[1].confidence_score = DocumentedSum(c)
                    /\ Positive(c) \subseteq Range(c.result[1].match_strategies)

C5_Witness ==
    /\ pc = "_evaluate_match"
    /\ match_strategies["exact_title"] = Raises
    /\ match_strategies["temporal_alignment"] = Returns(FromInt(1))
    /\ evaluated[1].result # <<>>
    /\ evaluated[1].result[1].confidence_score = Dec(5, 100)

----------------------------------------------------------------------------
(* Properties of the detector *)

\* C6: for any list of matches scan_for_arbitrage returns a list, and the
\* list is ordered by net_edge, largest first.
C6_SortedByNetEdge ==
    /\ pc # "scan_raised"
    /\ \A i \in 1..Len(opportunities) : \A j \in 1..Len(opportunities) :
          i < j => opportunities[i].net_edge >= opportunities[j].net_edge

DocumentedFloor == Dec(70, 100)

\* C7 as stated: no opportunity comes from a match below the 0.7 floor, and
\* the floor is stricter than the acceptance threshold of the matcher whose
\* matches are scanned.
C7_FloorStricterThanThreshold ==
    /\ \A o \in Range(opportunities) :
          FloatLeq(DocumentedFloor, o.match_result.confidence_score)
    /\ pc = "scan_for_arbitrage" => FloatLess(confidence_threshold, DocumentedFloor)

\* C7 amended: no opportunity comes from a match below the 0.7 floor, which
\* is skipped before any economic evaluation, so a scan in which the
\* evaluation raised held a match at or above the floor; the floor lies
\* below the default threshold 0.75, so it rejects no match that a matcher
\* with the default threshold accepted.
C7_ConfidenceFloor ==
    /\ \A o \in Range(opportunities) :
          ~FloatLess(o.match_result.confidence_score, DocumentedFloor)
    /\ pc = "scan_raised" =>
          \E m \in Range(matches) : FloatLeq(DocumentedFloor, m.confidence_score)
    /\ pc \in {"scan_for_arbitrage", "scan_raised"}
       /\ confidence_threshold = DefaultConfidenceThreshold
          => \A m \in Range(matches) : FloatLeq(DocumentedFloor, m.confidence_score)

\* the floor turns down a match that a matcher with a lower threshold let in
\* and whose prices pass every gate of the economic evaluation
C7_Witness ==
    /\ pc = "scan_for_arbitrage"
    /\ matches # <<>>
    /\ \A m \in Range(matches) :
          /\ FloatLess(m.confidence_score, DocumentedFloor)
          /\ FloatLeq(confidence_threshold, m.confidence_score)
    /\ \E m \in Range(matches) :
          _check_binary_arbitrage(m, "YES", "NO", min_edge_threshold,
                                  max_slippage_tolerance).raised
    /\ opportunities = <<>>

\* a leg's cost as documented: price x (1 + trading fee) + gas + network fee
LegCost(price, venue) ==
    price * (100 + venue_fees(venue).trading_fee)
    + venue_fees(venue).gas_estimate + venue_fees(venue).network_fee

\* C8: an opportunity exists only if the two leg costs sum to less than 1;
\* its gross_edge is 1 minus that sum and is at least min_edge_threshold.
\* Leg costs 0.55 and 0.40 give a gross edge of 0.05, which passes 0.02;
\* leg costs 0.60 and 0.45 give nothing.
C8_BinaryArbitrage ==
    /\ \A o \in Range(opportunities) :
          LET total == LegCost(o.buy_price, o.buy_venue) + LegCost(o.sell_price, o.sell_venue)
          IN  /\ total < 10000
              /\ o.gross_edge = 10000 - total
              /\ o.gross_edge >= 200
    /\ \A o \in Range(opportunities) :
          LegCost(o.buy_price, o.buy_venue) = 5500 /\ LegCost(o.sell_price, o.sell_venue) = 4000
              => o.gross_edge = 500
    /\ \A o \in Range(opportunities) :
          ~(LegCost(o.buy_price, o.buy_venue) = 4500
            /\ LegCost(o.sell_price, o.sell_venue) = 6000)
    /\ pc \in {"scan_for_arbitrage", "scan_raised"} =>
          \A m \in Range(matches) :
              /\ FloatLeq(DocumentedFloor, m.confidence_score)
              /\ m.event_a.event_id = "S1" /\ m.event_b.event_id = "S2"
              => \E o \in Range(opportunities) :
                    o.match_result = m /\ o.buy_side = "YES" /\ o.gross_edge = 500

\* the slippage band of a leg, from its liquidity
Band(liquidity) ==
    IF liquidity = <<>> \/ liquidity[1] = 0 THEN 50
    ELSE IF liquidity[1] > 10000 THEN 10
    ELSE IF liquidity[1] > 1000 THEN 30
    ELSE 100

LegLiquidity(event, side) == _find_contract_side(event, side)[1].liquidity

\* a direction of a scanned match that passes the floor, the cost gate and
\* the edge gate
Candidate(m, side_a, side_b) ==
    /\ FloatLeq(DocumentedFloor, m.confidence_score)
    /\ BothBinary(m)
    /\ _find_contract_side(m.event_a, side_a) # <<>>
    /\ _find_contract_side(m.event_b, side_b) # <<>>
    /\ LET total == LegCost(_find_contract_side(m.event_a, side_a)[1].price, m.event_a.venue)
                    + LegCost(_find_contract_side(m.event_b, side_b)[1].price, m.event_b.venue)
       IN  total < 10000 /\ ~EdgeTooSmall(10000 - total, min_edge_threshold)

\* C9: every opportunity has net_edge = gross_edge - slippage_estimate, where
\* slippage_estimate is the sum of the two legs' liquidity bands and is at
\* most max_slippage_tolerance; of the candidates of a scan, the ones above
\* the tolerance are dropped and the others are returned.
C9_NetEdge ==
    /\ \A o \in Range(opportunities) :
          /\ o.net_edge = o.gross_edge - o.slippage_estimate
          /\ o.slippage_estimate =
                Band(LegLiquidity(o.match_result.event_a, o.buy_side))
                + Band(LegLiquidity(o.match_result.event_b, o.sell_side))
          /\ ~TooMuchSlippage(o.slippage_estimate, max_slippage_tolerance)
    /\ pc \in {"scan_for_arbitrage", "scan_raised"} =>
          \A m \in Range(matches) :
              \A d \in {<<"YES", "NO">>, <<"NO", "YES">>} :
                  Candidate(m, d[1], d[2]) =>
                      LET slippage == Band(LegLiquidity(m.event_a, d[1]))
                                      + Band(LegLiquidity(m.event_b, d[2]))
                      IN  ~TooMuchSlippage(slippage, max_slippage_tolerance)
                          <=> \E o \in Range(opportunities) :
                                /\ o.match_result = m
                                /\ o.buy_side = d[1]
                                /\ o.slippage_estimate = slippage

----------------------------------------------------------------------------
(* get_market_depth followed by calculate_slippage on the depth it built *)

RawLevel(side, price, size) == [side |-> side, price |-> price, totalSize |-> size]

\* on either side: two prices, a level under min_level_size between them,
\* and a second level at the best price
RawLevels ==
    { RawLevel("SELL", 50, 100), RawLevel("SELL", 52, 200), RawLevel("SELL", 51, 5),
      RawLevel("SELL", 50, 200),
      RawLevel("BUY", 48, 100), RawLevel("BUY", 46, 200), RawLevel("BUY", 47, 5),
      RawLevel("BUY", 48, 200) }

\* lists with a level that lacks a key: the price, the size, the side of a
\* level of 100, and the side of a level under min_level_size
IncompleteLists ==
    { <<[side |-> "SELL", totalSize |-> 100]>>,
      <<RawLevel("BUY", 48, 100), [side |-> "SELL", price |-> 50]>>,
      <<RawLevel("SELL", 50, 100), [price |-> 52, totalSize |-> 100]>>,
      <<RawLevel("SELL", 50, 100), [price |-> 52, totalSize |-> 5]>> }

RawLists == SeqsUpTo(RawLevels, MaxRaw) \cup IncompleteLists

\* what the subgraph answers to the price-level request
PriceLevelAnswers ==
    {AnswerFails, AnswerErrors, AnswerNullData, AnswerData(<<>>)}
    \cup {AnswerData([priceLevels |-> price_levels]) : price_levels \in RawLists}

\* the total depths of the two sides in an orderBooks entry: the subgraph
\* sends decimals as strings; a number 0 or a null is stored as None
BookDepths ==
    { <<JsonString(300), JsonString(300)>>, <<JsonString(0), JsonString(0)>>,
      <<JsonString(100), JsonString(500)>>, <<JsonString(400), JsonString(0)>>,
      <<JsonNumber(0), JsonString(300)>>, <<JsonString(300), JsonNull>> }

\* an entry of orderBooks quoted 0.48 / 0.50
QuotedBook(market_id, bid_depth, ask_depth, last_update) ==
    OrderBook(market_id, JsonString(48), JsonString(50), JsonString(2), JsonString(4),
              bid_depth, ask_depth, last_update)

\* what the subgraph holds in answer to the order book request for m1: an
\* entry of orderBooks for it, none, one for another market, one without
\* lastUpdate; entries of spreads, of orderFlows and of orderFills with and
\* without one of orderBooks; fills without a price or a timestamp, the
\* first of them and behind a fill that has both
OrderbookData ==
    { [orderBooks |-> <<QuotedBook("m1", d[1], d[2], JsonString(1))>>] : d \in BookDepths }
    \cup
    { <<>>,
      [orderBooks |-> <<>>, spreads |-> <<>>],
      [orderBooks |-> <<QuotedBook("m2", JsonString(300), JsonString(300), JsonString(1))>>],
      [orderBooks |-> <<QuotedBook("m1", JsonString(300), JsonString(300), JsonNull)>>],
      [spreads |-> <<Spread("m1", JsonString(2))>>],
      [orderBooks |-> <<QuotedBook("m1", JsonString(100), JsonString(500), JsonString(1))>>,
       spreads |-> <<Spread("m1", JsonNull), Spread("m2", JsonString(2))>>],
      [orderBooks |-> <<>>, spreads |-> <<>>,
       orderFlows |-> <<OrderFlow("m1", JsonString(10), JsonString(5), JsonString(33))>>,
       orderFills |-> <<>>],
      [orderFills |-> <<OrderFill("m1", JsonString(49), JsonString(1))>>],
      [orderBooks |-> <<QuotedBook("m1", JsonString(300), JsonString(300), JsonString(1))>>,
       orderFills |-> <<OrderFill("m1", JsonNull, JsonString(1))>>],
      [orderBooks |-> <<QuotedBook("m1", JsonString(300), JsonString(300), JsonString(1))>>,
       orderFlows |-> <<OrderFlow("m1", JsonString(10), JsonNull, JsonNumber(0))>>,
       orderFills |-> <<OrderFill("m1", JsonString(49), JsonString(2)),
                        OrderFill("m1", JsonNull, JsonString(1)),
                        OrderFill("m2", JsonString(51), JsonNull)>>] }

OrderbookAnswers ==
    {AnswerFails, AnswerErrors, AnswerNoData, AnswerNullData}
    \cup {AnswerData(data) : data \in OrderbookData}

ObData(best_bid, best_ask, bid_depth, ask_depth) ==
    [best_bid |-> best_bid, best_ask |-> best_ask,
     bid_depth |-> bid_depth, ask_depth |-> ask_depth]

TradeSides == {"buy", "sell"}

TradeSizes == {50, 100, 250, 300, 400}

InitDepth ==
    /\ confidence_threshold = DefaultConfidenceThreshold
    /\ match_strategies = StubStrategies
    /\ events_a = <<>>
    /\ events_b = <<>>
    /\ evaluated = <<>>
    /\ matches = <<>>
    /\ opportunities = <<>>
    /\ depth = NoDepth
    /\ request = NoRequest
    /\ estimate = NoEstimate
    /\ LaterIdle
    /\ pc = "init"

\* get_market_depth is a coroutine: it hands control back at each of its two
\* awaits, and sends the second request after the first was answered.

\* The call runs to its first await (line 103): the order book is requested.
GetMarketDepth ==
    /\ pc = "init"
    /\ pc' = "await_get_orderbook_data"
    /\ depth_fetch' = NoFetch
    /\ UNCHANGED <<confidence_threshold, match_strategies, events_a, events_b, evaluated,
                   matches, opportunities, depth, request, estimate,
                   feas_vars, queue_vars, listener_vars, detector_vars, run_vars, odds_vars,
                   listening_vars>>

\* get_orderbook_data returns or raises: an exception leaves get_market_depth
\* (line 103); for a market that is not in the lookup the call returns an
\* empty depth (line 107); for any other it keeps the entry and runs to its
\* second await (line 112).  session tells whether the client has one.
OrderbookAnswered(session, answer) ==
    /\ pc = "await_get_orderbook_data"
    /\ LET LookedUp(orderbook_data) ==
               /\ depth_fetch' =
                     [depth_fetch EXCEPT
                         !.orderbook_failed = session /\ FetchFailure(answer),
                         !.ob_data = IF orderbook_data.raised
                                        \/ "m1" \notin DOMAIN orderbook_data.lookup
                                     THEN <<>> ELSE <<orderbook_data.lookup["m1"]>>]
               /\ IF orderbook_data.raised THEN depth' = depth /\ pc' = "raised"
                  ELSE IF "m1" \notin DOMAIN orderbook_data.lookup
                  THEN depth' = EmptyDepth("m1") /\ pc' = "get_market_depth"
                  ELSE depth' = depth /\ pc' = "await__get_price_levels"
       IN  LookedUp(get_orderbook_data(_query_subgraph(session, answer)))
    /\ UNCHANGED <<confidence_threshold, match_strategies, events_a, events_b, evaluated,
                   matches, opportunities, request, estimate,
                   feas_vars, queue_vars, listener_vars, detector_vars, run_vars, odds_vars,
                   listening_vars>>

\* _get_price_levels returns and the call runs to its end: it builds the
\* depth, or an exception leaves it: TypeError from `None > 0` (line 131),
\* or the KeyError of _process_price_levels (line 136).
PriceLevelsAnswered(session, answer) ==
    /\ pc = "await__get_price_levels"
    /\ LET Fetched(price_levels) ==
               /\ depth_fetch' = [depth_fetch EXCEPT
                                     !.levels_failed = ~session \/ FetchFailure(answer),
                                     !.price_levels = price_levels]
               /\ IF \/ TotalDepthRaises(DepthArguments(depth_fetch.ob_data[1]))
                     \/ LevelsRaise(price_levels)
                  THEN depth' = depth /\ pc' = "raised"
                  ELSE /\ depth' = get_market_depth("m1", depth_fetch.ob_data, price_levels)
                       /\ pc' = "get_market_depth"
       IN  Fetched(_get_price_levels(_query_subgraph(session, answer)))
    /\ UNCHANGED <<confidence_threshold, match_strategies, events_a, events_b, evaluated,
                   matches, opportunities, request, estimate,
                   feas_vars, queue_vars, listener_vars, detector_vars, run_vars, odds_vars,
                   listening_vars>>

CalculateSlippage(side, size) ==
    /\ pc = "get_market_depth"
    /\ request' = [side |-> side, size |-> size]
    /\ estimate' = calculate_slippage(depth, side, size)
    /\ pc' = "calculate_slippage"
    /\ UNCHANGED <<confidence_threshold, match_strategies, events_a, events_b, evaluated,
                   matches, opportunities, depth, later_vars>>

NextDepth ==
    \/ GetMarketDepth
    \/ \E session \in BOOLEAN, answer \in OrderbookAnswers :
          OrderbookAnswered(session, answer)
    \/ \E session \in BOOLEAN, answer \in PriceLevelAnswers :
          PriceLevelsAnswered(session, answer)
    \/ \E side \in TradeSides, size \in TradeSizes : CalculateSlippage(side, size)

SpecDepth == InitDepth /\ [][NextDepth]_vars

----------------------------------------------------------------------------
(* Properties of the depth analyzer *)

RECURSIVE SumSizes(_, _)
SumSizes(levels, i) == IF i > Len(levels) THEN 0 ELSE levels[i].size + SumSizes(levels, i + 1)

RECURSIVE SumFills(_, _)
SumFills(consumed, i) == IF i > Len(consumed) THEN 0 ELSE consumed[i][2] + SumFills(consumed, i + 1)

\* the cost of the consumed levels, added up level by level as floats
RECURSIVE SumCost(_, _, _)
SumCost(consumed, i, total) ==
    IF i > Len(consumed) THEN total
    ELSE SumCost(consumed, i + 1,
                 FloatAdd(total, FloatMul(FromInt(consumed[i][2]), Price(consumed[i][1]))))

\* the levels a request consumes
ConsumingSide == IF request.side = "buy" THEN depth.ask_levels ELSE depth.bid_levels

\* C10: on a side that has levels the fill is greedy in priority order (asks
\* ascending for a buy, bids descending for a sell): every consumed level but
\* the last is taken whole, the filled size is min(requested size, sum of the
\* level sizes), the consumed sizes sum to it, and the average fill price is
\* the total cost over the filled size, in float arithmetic.  Asks
\* (0.50, 100), (0.52, 200) and a buy of 250 give 0.512, can_execute and
\* max_executable_size 250.
C10_GreedyFill ==
    (pc = "calculate_slippage" /\ ConsumingSide # <<>>) =>
        LET levels == ConsumingSide
            consumed == estimate.levels_consumed
            filled == Min(request.size, SumSizes(levels, 1))
        IN  /\ \A i \in 1..(Len(levels) - 1) :
                  IF request.side = "buy" THEN levels[i].price <= levels[i + 1].price
                  ELSE levels[i].price >= levels[i + 1].price
            /\ Len(consumed) <= Len(levels)
            /\ \A i \in 1..Len(consumed) :
                  /\ consumed[i][1] = levels[i].price
                  /\ consumed[i][2] <= levels[i].size
                  /\ i < Len(consumed) => consumed[i][2] = levels[i].size
            /\ estimate.max_executable_size = <<filled>>
            /\ SumFills(consumed, 1) = filled
            /\ estimate.average_fill_price =
                  <<FloatDiv(SumCost(consumed, 1, FloatZero), FromInt(filled))>>
            /\ (request = [side |-> "buy", size |-> 250]
                /\ levels = <<PriceLevel(50, 100, 100), PriceLevel(52, 200, 300)>>)
                  => /\ estimate.average_fill_price = <<Dec(512, 1000)>>
                     /\ estimate.can_execute
                     /\ estimate.max_executable_size = <<250>>

\* a max_executable_size is not smaller than another; one that is absent
\* is compared with none
NotSmaller(larger_max, smaller_max) ==
    (larger_max # <<>> /\ smaller_max # <<>>) => larger_max[1] >= smaller_max[1]

\* C11: when the requested size exceeds the total size of the consuming
\* side's levels, the estimate has can_execute false, depth_exhausted true
\* and max_executable_size equal to the sum of the consumed sizes, which is
\* the whole side; and on the same book a request at least as large never
\* gets a smaller max_executable_size.
C11_DepthExhaustion ==
    pc = "calculate_slippage" =>
        /\ request.size > SumSizes(ConsumingSide, 1) =>
              /\ ~estimate.can_execute
              /\ estimate.depth_exhausted
              /\ estimate.max_executable_size = <<SumFills(estimate.levels_consumed, 1)>>
              /\ estimate.max_executable_size = <<SumSizes(ConsumingSide, 1)>>
        /\ \A larger \in TradeSizes :
              larger >= request.size =>
                  NotSmaller(calculate_slippage(depth, request.side, larger).max_executable_size,
                             estimate.max_executable_size)

\* C16: a depth built by get_market_depth has depth_imbalance =
\* (bid_depth - ask_depth) / (bid_depth + ask_depth), within [-1, 1], when
\* its total depth is not zero, and no depth_imbalance when it is zero.
C16_DepthImbalance ==
    pc \in {"get_market_depth", "calculate_slippage"} =>
        LET total == depth.total_bid_depth + depth.total_ask_depth
        IN  /\ total # 0 =>
                  /\ depth.depth_imbalance =
                        <<FloatDiv(FromInt(depth.total_bid_depth - depth.total_ask_depth),
                                   FromInt(total))>>
                  /\ FloatLeq(FromInt(-1), depth.depth_imbalance[1])
                  /\ FloatLeq(depth.depth_imbalance[1], FromInt(1))
            /\ total = 0 => depth.depth_imbalance = <<>>

\* a one-sided book sits at the upper end of the range
C16_Witness ==
    /\ pc = "get_market_depth"
    /\ depth.total_bid_depth = 400
    /\ depth.total_ask_depth = 0
    /\ depth.depth_imbalance = <<FromInt(1)>>

----------------------------------------------------------------------------
(* calculate_arbitrage_slippage on two books, then                         *)
(* assess_arbitrage_feasibility on the dict it returned                    *)

\* the answers get_market_depth builds the books from: a cheap and a dear
\* two-level book, a book whose orderbook entry has no best quotes, a thin book, a book
\* whose best quotes lie inside its levels (quotes and levels come from
\* separate queries), a book whose only bid is below min_level_size, a
\* book with the levels of E quoted at those levels, a book whose asks fill
\* a buy of 250 at a slippage next to 0.05 and a dear book to sell it on, and
\* two books with the mid prices 0.03 and 0.030000000000000002
BookAnswers ==
    { [market_id |-> "A", orderbook |-> <<ObData(<<38>>, <<40>>, <<300>>, <<300>>)>>,
       price_levels |-> <<RawLevel("SELL", 40, 100), RawLevel("SELL", 41, 200),
                        RawLevel("BUY", 38, 100), RawLevel("BUY", 37, 200)>>],
      [market_id |-> "B", orderbook |-> <<ObData(<<50>>, <<52>>, <<300>>, <<300>>)>>,
       price_levels |-> <<RawLevel("BUY", 50, 100), RawLevel("BUY", 49, 200),
                        RawLevel("SELL", 52, 100), RawLevel("SELL", 53, 200)>>],
      [market_id |-> "C", orderbook |-> <<ObData(<<>>, <<>>, <<300>>, <<300>>)>>,
       price_levels |-> <<RawLevel("BUY", 44, 100), RawLevel("SELL", 46, 100)>>],
      [market_id |-> "D", orderbook |-> <<ObData(<<44>>, <<46>>, <<100>>, <<100>>)>>,
       price_levels |-> <<RawLevel("BUY", 44, 100), RawLevel("SELL", 46, 100)>>],
      [market_id |-> "E", orderbook |-> <<ObData(<<42>>, <<43>>, <<300>>, <<300>>)>>,
       price_levels |-> <<RawLevel("BUY", 41, 300), RawLevel("SELL", 44, 300)>>],
      [market_id |-> "F", orderbook |-> <<ObData(<<47>>, <<48>>, <<5>>, <<300>>)>>,
       price_levels |-> <<RawLevel("BUY", 47, 5), RawLevel("SELL", 48, 300)>>],
      [market_id |-> "G", orderbook |-> <<ObData(<<41>>, <<44>>, <<300>>, <<300>>)>>,
       price_levels |-> <<RawLevel("BUY", 41, 300), RawLevel("SELL", 44, 300)>>],
      [market_id |-> "H", orderbook |-> <<ObData(<<3>>, <<4>>, <<250>>, <<250>>)>>,
       price_levels |-> <<RawLevel("BUY", 3, 250), RawLevel("SELL", 4, 200),
                        RawLevel("SELL", 5, 50)>>],
      [market_id |-> "I", orderbook |-> <<ObData(<<98>>, <<99>>, <<1000>>, <<1000>>)>>,
       price_levels |-> <<RawLevel("BUY", 98, 1000), RawLevel("SELL", 99, 1000)>>],
      [market_id |-> "J", orderbook |-> <<ObData(<<2>>, <<4>>, <<100>>, <<100>>)>>,
       price_levels |-> <<RawLevel("BUY", 2, 100), RawLevel("SELL", 4, 100)>>],
      [market_id |-> "K", orderbook |-> <<ObData(<<1>>, <<5>>, <<100>>, <<100>>)>>,
       price_levels |-> <<RawLevel("BUY", 1, 100), RawLevel("SELL", 5, 100)>>] }

Books ==
    {get_market_depth(b.market_id, b.orderbook, b.price_levels) : b \in BookAnswers}

\* target_edge and max_slippage: the defaults, and looser and stricter limits
LimitChoices ==
    { [target_edge |-> <<Dec(2, 100)>>, max_slippage |-> <<Dec(1, 100)>>],
      [target_edge |-> <<Dec(2, 100)>>, max_slippage |-> <<Dec(5, 100)>>],
      [target_edge |-> <<Dec(30, 100)>>, max_slippage |-> <<Dec(1, 100)>>] }

InitFeas ==
    /\ confidence_threshold = DefaultConfidenceThreshold
    /\ match_strategies = StubStrategies
    /\ events_a = <<>>
    /\ events_b = <<>>
    /\ evaluated = <<>>
    /\ matches = <<>>
    /\ opportunities = <<>>
    /\ depth = NoDepth
    /\ request = NoRequest
    /\ estimate = NoEstimate
    /\ LaterIdle
    /\ pc = "init"

CalculateArbitrageSlippage(da, db, size) ==
    /\ pc = "init"
    /\ depth_a' = da
    /\ depth_b' = db
    /\ trade_size' = size
    /\ slippage_results' = calculate_arbitrage_slippage(da, db, size)
    /\ pc' = "calculate_arbitrage_slippage"
    /\ UNCHANGED <<confidence_threshold, match_strategies, events_a, events_b, evaluated,
                   matches, opportunities, depth, request, estimate, limits, assessment,
                   queue_vars, listener_vars, detector_vars, run_vars, extra_vars>>

AssessArbitrageFeasibility(l) ==
    /\ pc = "calculate_arbitrage_slippage"
    /\ limits' = l
    /\ assessment' = assess_arbitrage_feasibility(slippage_results, l.target_edge[1],
                                                  l.max_slippage[1])
    /\ pc' = "assess_arbitrage_feasibility"
    /\ UNCHANGED <<confidence_threshold, match_strategies, events_a, events_b, evaluated,
                   matches, opportunities, depth, request, estimate,
                   depth_a, depth_b, trade_size, slippage_results,
                   queue_vars, listener_vars, detector_vars, run_vars, extra_vars>>

NextFeas ==
    \/ \E da \in Books, db \in Books, size \in TradeSizes :
          CalculateArbitrageSlippage(da, db, size)
    \/ \E l \in LimitChoices : AssessArbitrageFeasibility(l)

SpecFeas == InitFeas /\ [][NextFeas]_vars

----------------------------------------------------------------------------
(* Properties of the arbitrage depth calls *)

ArbitrageCalled == pc \in {"calculate_arbitrage_slippage", "assess_arbitrage_feasibility"}

\* C12: for two books with different mid prices the buy leg is computed on
\* the book with the lower mid price and the sell leg on the book with the
\* higher one, and the call with the two books exchanged returns the same
\* buy_leg, sell_leg, buy_venue and sell_venue.
C12_LegAssignment ==
    (/\ ArbitrageCalled
     /\ depth_a.mid_price # <<>> /\ depth_b.mid_price # <<>>
     /\ depth_a.mid_price # depth_b.mid_price) =>
        LET a_cheaper == FloatLess(depth_a.mid_price[1], depth_b.mid_price[1])
            low == IF a_cheaper THEN depth_a ELSE depth_b
            high == IF a_cheaper THEN depth_b ELSE depth_a
        IN  /\ slippage_results # <<>>
            /\ slippage_results[1].buy_venue = low.market_id
            /\ slippage_results[1].sell_venue = high.market_id
            /\ slippage_results[1].buy_leg = calculate_slippage(low, "buy", trade_size)
            /\ slippage_results[1].sell_leg = calculate_slippage(high, "sell", trade_size)
            /\ slippage_results = calculate_arbitrage_slippage(depth_b, depth_a, trade_size)

\* the dearer book is passed first and the buy leg still lands on the cheaper
C12_Witness ==
    /\ pc = "calculate_arbitrage_slippage"
    /\ depth_a.market_id = "B"
    /\ depth_b.market_id = "A"
    /\ slippage_results # <<>>
    /\ slippage_results[1].buy_venue = "A"
    /\ slippage_results[1].buy_leg.can_execute

Assessed == pc = "assess_arbitrage_feasibility"

\* the slippage of a leg, 0 when it has none
LegSlippage(leg) ==
    IF leg.slippage_percentage = <<>> THEN FloatZero ELSE leg.slippage_percentage[1]

\* the net edge from the average fill prices of the two legs
EdgeFromFills(buy_leg, sell_leg) ==
    FloatSub(FloatDiv(FloatSub(sell_leg.average_fill_price[1], buy_leg.average_fill_price[1]),
                      buy_leg.average_fill_price[1]),
             FloatAdd(LegSlippage(buy_leg), LegSlippage(sell_leg)))

\* C13: an assessment is feasible only if both legs are fully executable,
\* max_size is the smaller of the two max_executable_size values and is
\* positive, the combined slippage is at most twice max_slippage, and the
\* net edge from the average fill prices is at least target_edge.
C13_FeasibleOnlyIf ==
    (Assessed /\ assessment.feasible) =>
        /\ slippage_results # <<>>
        /\ LET buy_leg == slippage_results[1].buy_leg
               sell_leg == slippage_results[1].sell_leg
               twice == FloatMul(FromInt(2), limits.max_slippage[1])
           IN  /\ buy_leg.can_execute /\ sell_leg.can_execute
               /\ assessment.max_size > 0
               /\ assessment.max_size = Min(buy_leg.max_executable_size[1],
                                            sell_leg.max_executable_size[1])
               /\ ~FloatLess(twice, FloatAdd(LegSlippage(buy_leg), LegSlippage(sell_leg)))
               /\ buy_leg.average_fill_price # <<>> /\ sell_leg.average_fill_price # <<>>
               /\ ~FloatLess(EdgeFromFills(buy_leg, sell_leg), limits.target_edge[1])

\* a feasible assessment at the default limits
C13_Witness ==
    /\ Assessed
    /\ assessment.feasible
    /\ limits.target_edge = <<Dec(2, 100)>>
    /\ limits.max_slippage = <<Dec(1, 100)>>
    /\ assessment.max_size = 100

\* C14: each failed condition (a leg not fully executable, a leg's slippage
\* above max_slippage, the net edge from the fill prices below target_edge)
\* has its own constraint in the list, each once and in the order of the
\* checks, and an assessment that is not feasible has a constraint.
C14_AllConstraintsReported ==
    Assessed =>
        /\ ~assessment.feasible => assessment.constraints # <<>>
        /\ Len(assessment.constraints) = Cardinality(Range(assessment.constraints))
        /\ slippage_results = <<>> => assessment.constraints = <<MissingCalculations>>
        /\ slippage_results # <<>> =>
              LET buy_leg == slippage_results[1].buy_leg
                  sell_leg == slippage_results[1].sell_leg
                  listed == Range(assessment.constraints)
              IN  /\ (BuyCannotExecute \in listed) <=> ~buy_leg.can_execute
                  /\ (SellCannotExecute \in listed) <=> ~sell_leg.can_execute
                  /\ (BuySlippageTooHigh \in listed)
                        <=> FloatLess(limits.max_slippage[1], LegSlippage(buy_leg))
                  /\ (SellSlippageTooHigh \in listed)
                        <=> FloatLess(limits.max_slippage[1], LegSlippage(sell_leg))
                  /\ (NetEdgeTooLow \in listed)
                        <=> /\ buy_leg.average_fill_price # <<>>
                            /\ sell_leg.average_fill_price # <<>>
                            /\ FloatLess(EdgeFromFills(buy_leg, sell_leg),
                                        limits.target_edge[1])

\* the five failures of one call, reported together
C14_Witness ==
    /\ Assessed
    /\ ~assessment.feasible
    /\ assessment.constraints =
          <<BuyCannotExecute, SellCannotExecute, BuySlippageTooHigh, SellSlippageTooHigh,
            NetEdgeTooLow>>

\* a leg with its slippage_percentage raised by a step
SlippageSteps == {Dec(1, 1000), Dec(1, 100)}

RaisedSlippage(leg, step) ==
    [leg EXCEPT !.slippage_percentage = <<FloatAdd(LegSlippage(leg), step)>>]

NetEdgeOf(results) ==
    assess_arbitrage_feasibility(results, limits.target_edge[1],
                                 limits.max_slippage[1]).net_edge_after_slippage

\* C15: a second call on the same inputs returns the same assessment, and
\* raising the slippage_percentage of either leg, the other leg unchanged,
\* gives a strictly smaller net_edge_after_slippage.
C15_PureAndDecreasing ==
    (Assessed /\ slippage_results # <<>>) =>
        /\ assessment = assess_arbitrage_feasibility(slippage_results, limits.target_edge[1],
                                                     limits.max_slippage[1])
        /\ \A step \in SlippageSteps :
              LET r == slippage_results[1]
                  buy_raised == [r EXCEPT !.buy_leg = RaisedSlippage(r.buy_leg, step)]
                  sell_raised == [r EXCEPT !.sell_leg = RaisedSlippage(r.sell_leg, step)]
              IN  /\ FloatLess(NetEdgeOf(<<buy_raised>>), assessment.net_edge_after_slippage)
                  /\ FloatLess(NetEdgeOf(<<sell_raised>>), assessment.net_edge_after_slippage)

\* the size a leg filled: the sum over the levels it consumed
FilledSize(leg) == SumFills(leg.levels_consumed, 1)

\* C26: max_size is the smaller of the two legs' max_executable_size when
\* both legs filled a positive size, whether fully or partially, and 0 when a
\* leg filled nothing or the legs are missing; it never exceeds the trade size
\* nor what either leg filled.
C26_PartialFillCeiling ==
    Assessed =>
        IF slippage_results = <<>> THEN assessment.max_size = 0
        ELSE LET buy_leg == slippage_results[1].buy_leg
                 sell_leg == slippage_results[1].sell_leg
             IN  IF FilledSize(buy_leg) > 0 /\ FilledSize(sell_leg) > 0
                 THEN /\ assessment.max_size = Min(buy_leg.max_executable_size[1],
                                                   sell_leg.max_executable_size[1])
                      /\ assessment.max_size = Min(FilledSize(buy_leg), FilledSize(sell_leg))
                      /\ assessment.max_size <= trade_size
                 ELSE assessment.max_size = 0

\* the sell leg fills 100 of the 250 asked for and the buy leg all 250: the
\* assessment is infeasible and reports 100 as the ceiling
C26_Witness ==
    /\ Assessed
    /\ trade_size = 250
    /\ slippage_results # <<>>
    /\ slippage_results[1].buy_leg.can_execute
    /\ ~slippage_results[1].sell_leg.can_execute
    /\ slippage_results[1].sell_leg.depth_exhausted
    /\ assessment.max_size = 100
    /\ ~assessment.feasible

\* the depth of a market was built from raw price levels
DepthBuilt == pc \in {"get_market_depth", "calculate_slippage"}

\* best price first: descending for bids, ascending for asks
BestFirst(levels, descending) ==
    \A i \in 1..(Len(levels) - 1) :
        IF descending THEN levels[i].price >= levels[i + 1].price
        ELSE levels[i].price <= levels[i + 1].price

RECURSIVE SumSizesUpTo(_, _)
SumSizesUpTo(levels, i) == IF i = 0 THEN 0 ELSE levels[i].size + SumSizesUpTo(levels, i - 1)

RECURSIVE SumBetterPriced(_, _, _, _)
SumBetterPriced(levels, price, descending, i) ==
    IF i > Len(levels) THEN 0
    ELSE (IF (descending /\ levels[i].price > price) \/ (~descending /\ levels[i].price < price)
          THEN levels[i].size ELSE 0)
         + SumBetterPriced(levels, price, descending, i + 1)

AboveFloor(levels) == \A i \in 1..Len(levels) : levels[i].size >= min_level_size

\* C27 as stated: no kept level is below the size floor, each side has its
\* best price first, and the cumulative_size of a level is its size plus
\* the sizes of the strictly better-priced kept levels of its side.
C27_CumulativeOverBetterPriced ==
    DepthBuilt =>
        /\ AboveFloor(depth.bid_levels) /\ AboveFloor(depth.ask_levels)
        /\ BestFirst(depth.bid_levels, TRUE) /\ BestFirst(depth.ask_levels, FALSE)
        /\ \A i \in 1..Len(depth.bid_levels) :
              depth.bid_levels[i].cumulative_size
                  = depth.bid_levels[i].size
                    + SumBetterPriced(depth.bid_levels, depth.bid_levels[i].price, TRUE, 1)
        /\ \A i \in 1..Len(depth.ask_levels) :
              depth.ask_levels[i].cumulative_size
                  = depth.ask_levels[i].size
                    + SumBetterPriced(depth.ask_levels, depth.ask_levels[i].price, FALSE, 1)

\* the sizes of the levels of a side's list that have the price, in order
RECURSIVE SizesAtPrice(_, _, _)
SizesAtPrice(levels, price, i) ==
    IF i > Len(levels) THEN <<>>
    ELSE IF levels[i].price = price
         THEN <<levels[i].size>> \o SizesAtPrice(levels, price, i + 1)
         ELSE SizesAtPrice(levels, price, i + 1)

\* the sizes of the levels of the raw list that reach the size floor and
\* have the side and the price, in the order of the raw list
RECURSIVE RawSizesAtPrice(_, _, _, _)
RawSizesAtPrice(price_levels, side, price, i) ==
    IF i > Len(price_levels) THEN <<>>
    ELSE IF /\ price_levels[i].totalSize >= min_level_size
            /\ price_levels[i].side = side
            /\ price_levels[i].price = price
         THEN <<price_levels[i].totalSize>> \o RawSizesAtPrice(price_levels, side, price, i + 1)
         ELSE RawSizesAtPrice(price_levels, side, price, i + 1)

\* the kept levels of one price stand in the order of the raw list
InRawOrder(levels, side) ==
    \A i \in 1..Len(levels) :
        SizesAtPrice(levels, levels[i].price, 1)
            = RawSizesAtPrice(depth_fetch.price_levels, side, levels[i].price, 1)

\* C27, amended: no kept level is below the size floor, each side has its
\* best price first and its levels of one price in the order of the raw
\* list, and the cumulative_size of a level is the sum of the sizes of the
\* kept levels of its side up to and including it in that order: the
\* better-priced levels and the levels of the same price that precede it.
\* It equals the sum over the strictly better-priced levels when no other
\* kept level of the side has the same price.
C27_CumulativeInOrder ==
    DepthBuilt =>
        /\ AboveFloor(depth.bid_levels) /\ AboveFloor(depth.ask_levels)
        /\ BestFirst(depth.bid_levels, TRUE) /\ BestFirst(depth.ask_levels, FALSE)
        /\ InRawOrder(depth.bid_levels, "BUY") /\ InRawOrder(depth.ask_levels, "SELL")
        /\ \A i \in 1..Len(depth.bid_levels) :
              LET levels == depth.bid_levels
              IN  /\ levels[i].cumulative_size = SumSizesUpTo(levels, i)
                  /\ (\A j \in 1..Len(levels) : j # i => levels[j].price # levels[i].price)
                        => levels[i].cumulative_size
                             = levels[i].size + SumBetterPriced(levels, levels[i].price, TRUE, 1)
        /\ \A i \in 1..Len(depth.ask_levels) :
              LET levels == depth.ask_levels
              IN  /\ levels[i].cumulative_size = SumSizesUpTo(levels, i)
                  /\ (\A j \in 1..Len(levels) : j # i => levels[j].price # levels[i].price)
                        => levels[i].cumulative_size
                             = levels[i].size + SumBetterPriced(levels, levels[i].price, FALSE, 1)

\* the raw list held an ask of 200 at 0.50 before an ask of 100 at 0.50 and
\* an ask at 0.52 before both: the two asks at 0.50 were kept in that
\* order, and the second accumulates the first
C27_Witness ==
    /\ pc = "get_market_depth"
    /\ depth_fetch.price_levels
          = <<RawLevel("SELL", 52, 200), RawLevel("SELL", 50, 200), RawLevel("SELL", 50, 100)>>
    /\ depth.bid_levels = <<>>
    /\ depth.ask_levels = <<PriceLevel(50, 200, 200), PriceLevel(50, 100, 300),
                            PriceLevel(52, 200, 500)>>

\* C28: the net edge depends on the two legs' average fill prices only: a
\* call on books that give both legs the same average fill prices, whatever
\* their best quotes, is assessed with the same net_edge_after_slippage.
C28_NetEdgeFromFillPricesOnly ==
    (Assessed /\ slippage_results # <<>>) =>
        \A da \in Books, db \in Books :
            LET SameEdge(other) ==
                    (/\ other # <<>>
                     /\ other[1].buy_leg.average_fill_price
                           = slippage_results[1].buy_leg.average_fill_price
                     /\ other[1].sell_leg.average_fill_price
                           = slippage_results[1].sell_leg.average_fill_price)
                        => assess_arbitrage_feasibility(
                               other, limits.target_edge[1],
                               limits.max_slippage[1]).net_edge_after_slippage
                             = assessment.net_edge_after_slippage
            IN  SameEdge(calculate_arbitrage_slippage(da, db, trade_size))

----------------------------------------------------------------------------
(* HumanReviewQueue used by several workers and one consumer.  A list      *)
(* operation (append, truth test, pop) is one step of the interpreter;     *)
(* get_next_review is two of them, and other threads run in between.       *)

\* the k-th MatchResult a worker hands over
ReviewItem(w, k) == [worker |-> w, seq |-> k]

InitQueue ==
    /\ CoreIdle
    /\ LaterIdle
    /\ pc = "init"

AddForReview(w) ==
    /\ worker_adds[w] < MaxAdds
    /\ pending_reviews' = add_for_review(pending_reviews, ReviewItem(w, worker_adds[w] + 1))
    /\ added' = Append(added, ReviewItem(w, worker_adds[w] + 1))
    /\ worker_adds' = [worker_adds EXCEPT ![w] = @ + 1]
    /\ pc' = "add_for_review"
    /\ UNCHANGED <<core_vars, feas_vars, listener_vars, detector_vars, run_vars, extra_vars,
                   returned, consumer>>

\* `if self.pending_reviews:` and, on an empty list, `return None`
GetNextReviewTest ==
    /\ consumer.at = "idle"
    /\ consumer' = IF pending_reviews # <<>>
                   THEN [at |-> "pop", empty_at_check |-> FALSE, result |-> consumer.result]
                   ELSE [at |-> "idle", empty_at_check |-> TRUE, result |-> <<>>]
    /\ pc' = "get_next_review"
    /\ UNCHANGED <<core_vars, feas_vars, listener_vars, detector_vars, run_vars, extra_vars,
                   pending_reviews, added, returned, worker_adds>>

\* `return self.pending_reviews.pop(0)`
GetNextReviewPop ==
    /\ consumer.at = "pop"
    /\ pending_reviews # <<>>
    /\ LET popped == PopFront(pending_reviews)
       IN  /\ pending_reviews' = popped.rest
           /\ returned' = Append(returned, popped.item)
           /\ consumer' = [at |-> "idle", empty_at_check |-> FALSE, result |-> <<popped.item>>]
    /\ pc' = "get_next_review"
    /\ UNCHANGED <<core_vars, feas_vars, listener_vars, detector_vars, run_vars, extra_vars,
                   added, worker_adds>>

NextQueue ==
    \/ \E w \in Workers : AddForReview(w)
    \/ GetNextReviewTest
    \/ GetNextReviewPop

SpecQueue == InitQueue /\ [][NextQueue]_vars

\* C17: under every interleaving of the workers' add_for_review calls and
\* the single consumer's get_next_review calls, the MatchResults returned
\* followed by those still pending are exactly the ones added, in the order
\* of their appends (so none is lost and none is returned twice), the pop
\* never meets an empty list, and a call that finds the queue empty
\* returns None.
C17_QueueSafe ==
    /\ returned \o pending_reviews = added
    /\ \A i, j \in 1..Len(returned) : i # j => returned[i] # returned[j]
    /\ consumer.at = "pop" => pending_reviews # <<>>
    /\ consumer.empty_at_check => consumer.result = <<>>

\* two workers' items interleaved, one already returned, and the consumer
\* between its test and its pop while a worker appended
C17_Witness ==
    /\ consumer.at = "pop"
    /\ Len(returned) = 1
    /\ Len(pending_reviews) = 2
    /\ pending_reviews[1].worker # pending_reviews[2].worker
    /\ returned[1].worker = 2

----------------------------------------------------------------------------
(* ArbitrageScout.run_continuous.  The loop has no stop flag; the stop it   *)
(* provides for is the operator's interrupt (Ctrl-C), which reaches the     *)
(* coroutine wherever it is: as KeyboardInterrupt, or as the cancellation   *)
(* of the task under asyncio.run.  Either ends the loop on the spot.        *)

InitRun ==
    /\ ExtraIdle
    /\ CoreIdle
    /\ FeasIdle
    /\ QueueIdle
    /\ ListenerIdle
    /\ ScoutDetector
    /\ RunIdle
    /\ pc = "init"

\* while True: await self.run_discovery_cycle()
StartCycle ==
    /\ cycles_started < MaxCycles
    /\ loop' = "run_discovery_cycle"
    /\ cycles_started' = cycles_started + 1

\* the call of run_continuous, up to its first await
RunContinuous ==
    /\ loop = "not_started"
    /\ StartCycle
    /\ pc' = "run_continuous"
    /\ UNCHANGED <<core_vars, feas_vars, queue_vars, listener_vars, detector_vars, extra_vars,
                   cycle_outcomes, stop_requested>>

\* run_discovery_cycle returns: await asyncio.sleep(cycle_interval_seconds)
DiscoveryCycleReturns ==
    /\ loop = "run_discovery_cycle"
    /\ loop' = "sleep"
    /\ cycle_outcomes' = Append(cycle_outcomes, "returned")
    /\ pc' = "run_discovery_cycle"
    /\ UNCHANGED <<core_vars, feas_vars, queue_vars, listener_vars, detector_vars, extra_vars,
                   cycles_started, stop_requested>>

\* run_discovery_cycle raises an Exception: await asyncio.sleep(60)
DiscoveryCycleRaises ==
    /\ loop = "run_discovery_cycle"
    /\ loop' = "retry_sleep"
    /\ cycle_outcomes' = Append(cycle_outcomes, "raised")
    /\ pc' = "run_discovery_cycle"
    /\ UNCHANGED <<core_vars, feas_vars, queue_vars, listener_vars, detector_vars, extra_vars,
                   cycles_started, stop_requested>>

\* a sleep returns and the loop goes round
SleepReturns ==
    /\ loop \in {"sleep", "retry_sleep"}
    /\ StartCycle
    /\ pc' = "sleep"
    /\ UNCHANGED <<core_vars, feas_vars, queue_vars, listener_vars, detector_vars, extra_vars,
                   cycle_outcomes, stop_requested>>

\* the operator asks the scan to stop
Interrupt ==
    /\ loop \in {"run_discovery_cycle", "sleep", "retry_sleep"}
    /\ stop_requested' = TRUE
    /\ loop' = "stopped"
    /\ cycle_outcomes' = IF loop = "run_discovery_cycle"
                         THEN Append(cycle_outcomes, "interrupted")
                         ELSE cycle_outcomes
    /\ pc' = "interrupt"
    /\ UNCHANGED <<core_vars, feas_vars, queue_vars, listener_vars, detector_vars, extra_vars,
                   cycles_started>>

NextRun ==
    \/ RunContinuous
    \/ DiscoveryCycleReturns
    \/ DiscoveryCycleRaises
    \/ SleepReturns
    \/ Interrupt

SpecRun == InitRun /\ [][NextRun]_vars

----------------------------------------------------------------------------
(* Properties of the continuous scan *)

\* C19: once a stop is requested, the discovery cycle that was running has
\* run to its end (no cycle was cut short) and no further cycle is started.
C19_CooperativeStop ==
    stop_requested =>
        /\ Len(cycle_outcomes) = cycles_started
        /\ \A i \in 1..Len(cycle_outcomes) : cycle_outcomes[i] # "interrupted"
        /\ loop = "stopped"

----------------------------------------------------------------------------
(* The matcher and the detector constructed from a configuration, then one  *)
(* find_matches and one scan_for_arbitrage with what they were given.       *)
(* Neither __init__ looks at its arguments: each stores them.               *)

\* confidence_threshold arguments of EventMatcher(...)
MatchThresholdChoices == {DefaultConfidenceThreshold, LowConfidenceThreshold, Dec(-5, 10)}

\* min_edge_threshold arguments of ArbitrageDetector(...)
MinEdgeChoices ==
    {AsDecimal(DefaultMinEdgeThreshold), AsDecimal(-200), AsFloat(ScoutMinEdge), AsFloat(-200)}

\* max_slippage_tolerance arguments of ArbitrageDetector(...)
MaxSlippageChoices ==
    {AsDecimal(DefaultMaxSlippageTolerance), AsDecimal(-100), AsFloat(ScoutMaxSlippage),
     AsFloat(-100)}

InitConfig ==
    /\ ExtraIdle
    /\ confidence_threshold \in MatchThresholdChoices
    /\ match_strategies = StubStrategies
    /\ events_a = <<>>
    /\ events_b = <<>>
    /\ evaluated = <<>>
    /\ matches = <<>>
    /\ opportunities = <<>>
    /\ depth = NoDepth
    /\ request = NoRequest
    /\ estimate = NoEstimate
    /\ FeasIdle
    /\ QueueIdle
    /\ ListenerIdle
    /\ RunIdle
    /\ min_edge_threshold \in MinEdgeChoices
    /\ max_slippage_tolerance \in MaxSlippageChoices
    /\ pc = "init"

NextConfig ==
    \/ \E ea \in EventLists, eb \in EventLists : FindMatches(ea, eb)
    \/ DetectArbitrage

SpecConfig == InitConfig /\ [][NextConfig]_vars

----------------------------------------------------------------------------
(* Properties of construction *)

\* C20: no matcher finds matches and no detector scans with a negative
\* confidence threshold, min edge threshold or max slippage tolerance, since
\* constructing one with such a value fails.
C20_NegativeThresholdRejected ==
    /\ pc \in {"find_matches", "raised"} => FloatLeq(FloatZero, confidence_threshold)
    /\ pc = "scan_for_arbitrage" =>
          /\ min_edge_threshold.value >= 0
          /\ max_slippage_tolerance.value >= 0

----------------------------------------------------------------------------
(* find_matches and scan_for_arbitrage on batches that hold malformed       *)
(* events: one built without a deadline, one without a NO side.            *)

MalformedEvents ==
    { Event("M1", "polymarket", "binary", NoDeadline, "u1",
            <<Side("YES", 40, <<20000>>), Side("NO", 45, <<20000>>)>>),
      Event("X4", "predyx", "binary", 10, "u1",
            <<Side("YES", 45, <<20000>>)>>) }

BatchEvents ==
    {EventById(id) : id \in {"P1", "X1", "X2"}} \cup MalformedEvents

\* event lists of a batch: no event occurs twice in one list
BatchLists ==
    {l \in SeqsUpTo(BatchEvents, MaxEvents) :
        \A i, j \in 1..Len(l) : i # j => l[i].event_id # l[j].event_id}

\* the source's stubs, and implementations that score every pair
BatchProfiles ==
    { StubStrategies,
      Table(Returns(FromInt(1)), Returns(FromInt(1)), Returns(FromInt(1)), Returns(FromInt(1)), Returns(FromInt(1)), Returns(FromInt(1))) }

InitBatch ==
    /\ confidence_threshold = DefaultConfidenceThreshold
    /\ match_strategies \in BatchProfiles
    /\ events_a = <<>>
    /\ events_b = <<>>
    /\ evaluated = <<>>
    /\ matches = <<>>
    /\ opportunities = <<>>
    /\ depth = NoDepth
    /\ request = NoRequest
    /\ estimate = NoEstimate
    /\ LaterIdle
    /\ pc = "init"

NextBatch ==
    \/ \E ea \in BatchLists, eb \in BatchLists : FindMatches(ea, eb)
    \/ DetectArbitrage

SpecBatch == InitBatch /\ [][NextBatch]_vars

----------------------------------------------------------------------------
(* Properties of batches *)

\* the cross-venue pairs of two event lists, in the order of find_matches
RECURSIVE CrossVenuePairs(_, _, _, _)
CrossVenuePairs(ea, eb, i, j) ==
    IF i > Len(ea) THEN <<>>
    ELSE IF j > Len(eb) THEN CrossVenuePairs(ea, eb, i + 1, 1)
    ELSE (IF ea[i].venue # eb[j].venue THEN << <<ea[i], eb[j]>> >> ELSE <<>>)
         \o CrossVenuePairs(ea, eb, i, j + 1)

\* C21: a malformed event never aborts a batch: find_matches does not raise,
\* it evaluates every cross-venue pair of its two lists, and a pair with a
\* malformed event yields no match; scan_for_arbitrage yields no opportunity
\* for a match whose event lacks the needed contract side.
C21_BadInputNeverAborts ==
    /\ pc # "raised"
    /\ pc \in {"find_matches", "scan_for_arbitrage"} =>
          LET pairs == CrossVenuePairs(events_a, events_b, 1, 1)
          IN  /\ Len(evaluated) = Len(pairs)
              /\ \A k \in 1..Len(pairs) :
                    /\ evaluated[k].event_a = pairs[k][1]
                    /\ evaluated[k].event_b = pairs[k][2]
              /\ \A k \in 1..Len(matches) :
                    /\ matches[k].event_a.deadline # -1
                    /\ matches[k].event_b.deadline # -1
    /\ \A k \in 1..Len(opportunities) :
          /\ _find_contract_side(opportunities[k].match_result.event_a,
                                 opportunities[k].buy_side) # <<>>
          /\ _find_contract_side(opportunities[k].match_result.event_b,
                                 opportunities[k].sell_side) # <<>>

----------------------------------------------------------------------------
(* get_market_depth with the two subgraph fetches behind it, each of which  *)
(* can fail, then calculate_slippage on the depth it returned.             *)

\* the order book answers of venues whose book of m1 has depth 300 / 300,
\* 100 / 500 or none, of a venue that has no book of it, and of a venue
\* that has fills of it only
VenueBookAnswers ==
    {AnswerFails, AnswerErrors, AnswerNoData, AnswerNullData,
     AnswerData([orderBooks |-> <<>>]),
     AnswerData([orderBooks |-> <<>>,
                 orderFills |-> <<OrderFill("m1", JsonString(49), JsonString(1))>>])}
    \cup
    { AnswerData([orderBooks |-> <<QuotedBook("m1", d[1], d[2], JsonString(1))>>]) :
        d \in { <<JsonString(300), JsonString(300)>>, <<JsonString(100), JsonString(500)>>,
                <<JsonString(0), JsonString(0)>> } }

\* the price-level answers of a venue that holds no, two or three levels
VenueLevelAnswers ==
    { AnswerFails, AnswerErrors, AnswerNullData, AnswerData([priceLevels |-> <<>>]),
      AnswerData([priceLevels |-> <<RawLevel("BUY", 48, 100), RawLevel("SELL", 50, 100)>>]),
      AnswerData([priceLevels |-> <<RawLevel("SELL", 52, 200), RawLevel("SELL", 50, 100),
                                    RawLevel("BUY", 46, 200)>>]) }

InitFetch ==
    /\ CoreIdle
    /\ LaterIdle
    /\ pc = "init"

NextFetch ==
    \/ GetMarketDepth
    \/ \E session \in BOOLEAN, answer \in VenueBookAnswers :
          OrderbookAnswered(session, answer)
    \/ \E session \in BOOLEAN, answer \in VenueLevelAnswers :
          PriceLevelsAnswered(session, answer)
    \/ \E side \in TradeSides, size \in TradeSizes : CalculateSlippage(side, size)

SpecFetch == InitFetch /\ [][NextFetch]_vars

----------------------------------------------------------------------------
(* Properties of the depth fetch *)

\* C22: a depth that get_market_depth returns after a failed fetch differs
\* from the depth it returns for a market whose book is empty: after a failed
\* order book fetch it is not the depth of a market without a book, and after
\* a failed price-level fetch it is not the depth of the same book without
\* price levels.
C22_FailedFetchNotZeroLiquidity ==
    pc \in {"get_market_depth", "calculate_slippage"} =>
        /\ depth_fetch.orderbook_failed => depth # get_market_depth("m1", <<>>, <<>>)
        /\ depth_fetch.levels_failed =>
              depth # get_market_depth("m1", depth_fetch.ob_data, <<>>)

----------------------------------------------------------------------------
(* extract_sequences on two odds series, then evaluate_threshold_sets on    *)
(* the sequences it returned.                                              *)

OddsTimestamps == {0, 30, 100}

OddsPrices == {70, 85, 96, NaN}

OddsRows == {Row(t, q) : t \in OddsTimestamps, q \in OddsPrices}

\* a series as _load_single_series leaves it: sorted by timestamp
Frames ==
    {df \in SeqsUpTo(OddsRows, MaxRows) :
        \A i \in 1..Len(df) - 1 : df[i].timestamp <= df[i + 1].timestamp}

\* the second series of every run
FrameB == <<Row(5, 79), Row(35, 83), Row(60, 90)>>

MaxGapChoices == {30, 60}

ThresholdRequests ==
    { [threshold_sets |-> sets, direction |-> direction] :
        sets \in { << <<80, 95>> >>,
                   << <<80>>, <<80, 95, 80>> >>,
                   << <<>>, <<90, 75>> >> },
        direction \in {DIRECTION_UP, DIRECTION_DOWN} }

InitOdds ==
    /\ CoreIdle
    /\ LaterIdle
    /\ pc = "init"

ExtractSequences(df, max_gap_minutes) ==
    /\ pc = "init"
    /\ LET series == << [identifier |-> "event_a_yes", df |-> df],
                        [identifier |-> "event_b_yes", df |-> FrameB] >>
       IN  /\ odds_series' = series
           /\ odds_sequences' = extract_sequences(series, max_gap_minutes)
    /\ odds_gap' = max_gap_minutes
    /\ pc' = "extract_sequences"
    /\ UNCHANGED <<core_vars, feas_vars, queue_vars, listener_vars, detector_vars, run_vars,
                   depth_fetch, odds_request, odds_stats, listening_vars>>

EvaluateThresholdSets(req) ==
    /\ pc = "extract_sequences"
    /\ odds_request' = req
    /\ odds_stats' = evaluate_threshold_sets(odds_sequences, req.threshold_sets,
                                             req.direction)
    /\ pc' = "evaluate_threshold_sets"
    /\ UNCHANGED <<core_vars, feas_vars, queue_vars, listener_vars, detector_vars, run_vars,
                   depth_fetch, odds_series, odds_gap, odds_sequences, listening_vars>>

NextOdds ==
    \/ \E df \in Frames, max_gap_minutes \in MaxGapChoices :
          ExtractSequences(df, max_gap_minutes)
    \/ \E req \in ThresholdRequests : EvaluateThresholdSets(req)

SpecOdds == InitOdds /\ [][NextOdds]_vars

----------------------------------------------------------------------------
(* Properties of the odds monitor *)

\* price i of a sequence meets a threshold in the direction of the request
MeetsAt(prices, i, threshold, direction) ==
    /\ prices[i] # -1
    /\ IF direction = "up" THEN prices[i] >= threshold ELSE prices[i] <= threshold

\* thresholds k.. of the path are met in order at indexes after `after`
RECURSIVE ChainAfter(_, _, _, _, _)
ChainAfter(prices, thresholds, direction, k, after) ==
    \/ k > Len(thresholds)
    \/ \E i \in (after + 1)..Len(prices) :
          /\ MeetsAt(prices, i, thresholds[k], direction)
          /\ ChainAfter(prices, thresholds, direction, k + 1, i)

\* the sequences in which some price meets the first threshold of the path
BaseHits(thresholds, direction) ==
    {n \in 1..Len(odds_sequences) :
        /\ thresholds # <<>>
        /\ \E i \in 1..Len(odds_sequences[n].data) :
              MeetsAt(Prices(odds_sequences[n].data), i, thresholds[1], direction)}

\* the sequences in which the whole path is met, each threshold at an index
\* strictly after the one before
Successes(thresholds, direction) ==
    {n \in 1..Len(odds_sequences) :
        /\ thresholds # <<>>
        /\ ChainAfter(Prices(odds_sequences[n].data), thresholds, direction, 1, 0)}

IdentifiersOf(ns) == {odds_sequences[n].identifier : n \in ns}

\* C23: for every threshold path, sequence_base_count counts the sequences
\* in which some price meets the first threshold (>= for up, <= for down),
\* sequence_success_count those in which every threshold of the path is met in
\* order at strictly increasing indexes, the event id sets hold the
\* identifiers of those sequences, and successes never exceed base hits.
C23_ThresholdProgress ==
    pc = "evaluate_threshold_sets" =>
        /\ Len(odds_stats) = Len(odds_request.threshold_sets)
        /\ \A k \in 1..Len(odds_stats) :
              LET stats == odds_stats[k]
                  path == odds_request.threshold_sets[k]
                  base == BaseHits(path, odds_request.direction)
                  won == Successes(path, odds_request.direction)
              IN  /\ stats.threshold_path = path
                  /\ stats.sequence_base_count = Cardinality(base)
                  /\ stats.sequence_success_count = Cardinality(won)
                  /\ stats.event_base_ids = IdentifiersOf(base)
                  /\ stats.event_success_ids = IdentifiersOf(won)
                  /\ stats.sequence_success_count <= stats.sequence_base_count
                  /\ stats.event_success_ids \subseteq stats.event_base_ids

\* three sequences reach 0.80, one of them goes on to 0.95 afterwards, and
\* only one of the two events has a success
C23_Witness ==
    /\ pc = "evaluate_threshold_sets"
    /\ odds_request.direction = "up"
    /\ odds_request.threshold_sets = << <<80, 95>> >>
    /\ odds_stats[1].sequence_base_count = 3
    /\ odds_stats[1].sequence_success_count = 1
    /\ odds_stats[1].event_base_ids = {"event_a_yes", "event_b_yes"}
    /\ odds_stats[1].event_success_ids = {"event_a_yes"}

\* the sequences cut from series n, in order
RECURSIVE SequencesOf(_, _)
SequencesOf(identifier, n) ==
    IF n > Len(odds_sequences) THEN <<>>
    ELSE (IF odds_sequences[n].identifier = identifier THEN <<odds_sequences[n]>>
          ELSE <<>>)
         \o SequencesOf(identifier, n + 1)

RECURSIVE Concatenated(_, _)
Concatenated(chunks, k) ==
    IF k > Len(chunks) THEN <<>> ELSE chunks[k].data \o Concatenated(chunks, k + 1)

\* C24: the sequences of a series, concatenated in order, are its rows; no
\* sequence is empty; inside a sequence no two consecutive timestamps are more
\* than max_gap_minutes apart; and the last row of a sequence and the first
\* row of the next are more than max_gap_minutes apart.
C24_SplitByGap ==
    pc \in {"extract_sequences", "evaluate_threshold_sets"} =>
        \A n \in 1..Len(odds_series) :
            LET chunks == SequencesOf(odds_series[n].identifier, 1)
            IN  /\ Concatenated(chunks, 1) = odds_series[n].df
                /\ \A k \in 1..Len(chunks) :
                      /\ chunks[k].data # <<>>
                      /\ chunks[k].sequence_index = k - 1
                      /\ \A i \in 1..Len(chunks[k].data) - 1 :
                            chunks[k].data[i + 1].timestamp - chunks[k].data[i].timestamp
                                <= odds_gap
                /\ \A k \in 1..Len(chunks) - 1 :
                      chunks[k + 1].data[1].timestamp
                          - chunks[k].data[Len(chunks[k].data)].timestamp > odds_gap

\* a series cut in two, the first sequence holding a gap of exactly
\* max_gap_minutes
C24_Witness ==
    /\ pc = "extract_sequences"
    /\ odds_gap = 30
    /\ Len(odds_series[1].df) = 3
    /\ LET chunks == SequencesOf("event_a_yes", 1)
       IN  /\ Len(chunks) = 2
           /\ Len(chunks[1].data) = 2
           /\ chunks[1].data[2].timestamp - chunks[1].data[1].timestamp = 30
           /\ chunks[2].data[1].timestamp - chunks[1].data[2].timestamp = 70

----------------------------------------------------------------------------
(* _evaluate_match on pairs whose deadlines lie up to ten days apart        *)

RiskEvents ==
    {EventById(id) : id \in {"P1", "P2", "X1", "X2", "X3"}}
    \cup { Event("R1", "predyx", "binary", 25, "u1",
                  <<Side("YES", 50, <<>>), Side("NO", 50, <<>>)>>),
           Event("R2", "polymarket", "binary", 24, "u2",
                  <<Side("YES", 50, <<>>), Side("NO", 50, <<>>)>>) }

RiskPairs == {p \in RiskEvents \X RiskEvents : ~SameVenue(p[1], p[2])}

InitRisk ==
    /\ confidence_threshold = DefaultConfidenceThreshold
    /\ match_strategies \in Profiles
    /\ events_a = <<>>
    /\ events_b = <<>>
    /\ evaluated = <<>>
    /\ matches = <<>>
    /\ opportunities = <<>>
    /\ depth = NoDepth
    /\ request = NoRequest
    /\ estimate = NoEstimate
    /\ LaterIdle
    /\ pc = "init"

NextRisk == \E p \in RiskPairs : EvaluateMatch(p[1], p[2])

SpecRisk == InitRisk /\ [][NextRisk]_vars

----------------------------------------------------------------------------
(* Properties of risk-factor detection *)

\* C25: whatever the scores, the risk factors of a MatchResult are, in this
\* order: different_resolution_sources exactly when both events have a
\* resolution source and the two differ, deadline_mismatch_gt_week exactly
\* when the deadlines lie more than 7 days (14 half days) apart, and
\* different_market_types exactly when the market types differ.
C25_RiskFactors ==
    \A c \in Range(evaluated) :
        c.result # <<>> =>
            c.result[1].risk_factors =
                (IF c.event_a.resolution_source_url # ""
                    /\ c.event_b.resolution_source_url # ""
                    /\ c.event_a.resolution_source_url # c.event_b.resolution_source_url
                 THEN <<"different_resolution_sources">> ELSE <<>>)
                \o (IF Abs(c.event_a.deadline - c.event_b.deadline) > 14
                    THEN <<"deadline_mismatch_gt_week">> ELSE <<>>)
                \o (IF c.event_a.market_type # c.event_b.market_type
                    THEN <<"different_market_types">> ELSE <<>>)

----------------------------------------------------------------------------
(* MarketListener.start_listening called by two tasks of one event loop,    *)
(* stop_listening, and initialize_known_markets called directly.  A call    *)
(* runs without interruption from one point where it gives up control to    *)
(* the next: the await of the handlers an event goes to, and the sleep      *)
(* between two polls.                                                       *)

\* poll_interval arguments of MarketListener(...)
PollIntervals == {DefaultPollInterval, 400}

\* the pages client.get_markets() returns in the polls
FetchedLists ==
    { <<ApiMarket("c1", TRUE)>>,
      <<ApiMarket("c1", TRUE), ApiMarket("c2", TRUE)>>,
      <<ApiMarket("c2", TRUE), ApiMarket(Null, TRUE)>>,
      <<ApiMarket("", TRUE), ApiMarket("c2", FALSE), ApiMarket("c1", TRUE)>> }

PollResponses ==
    { [fetch |-> f, markets |-> <<>>] : f \in FetchOutcomes \ {FetchData} }
    \cup { [fetch |-> FetchData, markets |-> l] : l \in FetchedLists }

\* what initialize_known_markets gets: the markets of the pages it loads,
\* and whether a request after them raises
BaselineResponses ==
    { [markets |-> <<>>, raises |-> FALSE],
      [markets |-> <<>>, raises |-> TRUE],
      [markets |-> <<ApiMarket("c1", TRUE)>>, raises |-> FALSE],
      [markets |-> <<ApiMarket("c1", TRUE)>>, raises |-> TRUE],
      [markets |-> <<ApiMarket("c2", TRUE)>>, raises |-> FALSE],
      [markets |-> <<ApiMarket("c1", TRUE), ApiMarket(Null, TRUE), ApiMarket("", TRUE)>>,
       raises |-> FALSE] }

\* MarketListener(poll_interval=..., enable_subgraph=...)
InitListening ==
    /\ CoreIdle
    /\ FeasIdle /\ QueueIdle /\ DetectorIdle /\ RunIdle
    /\ depth_fetch = NoFetch
    /\ OddsIdle
    /\ poll_interval \in PollIntervals
    /\ consecutive_errors = 0
    /\ poll_log = <<>>
    /\ known_condition_ids = {}
    /\ is_running = FALSE
    /\ baseline_ids = {}
    /\ fetched_ids = {}
    /\ emitted = <<>>
    /\ start_calls = [t \in Callers |-> NotCalled]
    /\ polls_started = 0
    /\ enable_subgraph \in BOOLEAN
    /\ pc = "init"

\* one _poll_for_new_markets begun by call t, up to where it gives up control
BeginPoll(t, response, known) ==
    /\ polls_started < MaxPolls
    /\ polls_started' = polls_started + 1
    /\ LET Begun(r) ==
               /\ poll_interval' = r.fetched.poll_interval
               /\ consecutive_errors' = r.poll.consecutive_errors
               /\ poll_log' = Append(poll_log, r.entry)
               /\ known_condition_ids' = r.poll.known
               /\ emitted' = r.poll.emitted
               /\ fetched_ids' = fetched_ids \cup (IF r.fetched.markets
                                                   THEN IdsOf(response.markets) ELSE {})
               /\ start_calls' = [start_calls EXCEPT
                      ![t] = [at |-> r.poll.at, current |-> r.poll.current,
                              pending |-> r.poll.pending,
                              stop_requested |-> start_calls[t].stop_requested,
                              polled_after_stop |-> start_calls[t].stop_requested]]
       IN  Begun(_poll_for_new_markets(poll_interval, consecutive_errors, response,
                                       known, emitted, enable_subgraph))

\* start_listening from its call to the first point where it gives up
\* control: the test of is_running, the baseline when no id is known, and
\* the first poll
StartListening(t, baseline, response) ==
    /\ start_calls[t].at = "not_called"
    /\ IF is_running
       THEN /\ start_calls' = [start_calls EXCEPT ![t].at = "returned"]
            /\ UNCHANGED <<known_condition_ids, is_running, baseline_ids, fetched_ids,
                           polls_started, listener_vars, emitted>>
       ELSE LET Loaded(init) ==
                    /\ baseline_ids' = baseline_ids \cup init.loaded
                    /\ IF init.raised
                       THEN /\ known_condition_ids' = init.known
                            /\ start_calls' = [start_calls EXCEPT ![t].at = "raised"]
                            /\ UNCHANGED <<is_running, fetched_ids, polls_started,
                                           listener_vars, emitted>>
                       ELSE /\ is_running' = TRUE
                            /\ BeginPoll(t, response, init.known)
            IN  Loaded(IF known_condition_ids = {}
                       THEN initialize_known_markets(known_condition_ids, baseline)
                       ELSE [known |-> known_condition_ids, loaded |-> {},
                             raised |-> FALSE])
    /\ UNCHANGED <<core_vars, pc, feas_vars, queue_vars, detector_vars, run_vars,
                   depth_fetch, odds_vars, enable_subgraph>>

\* initialize_known_markets called directly (as test_market_listener.py
\* does), before, between or during the polls of a start_listening call
InitializeKnownMarkets(baseline) ==
    /\ LET Loaded(init) ==
               /\ known_condition_ids' = init.known
               /\ baseline_ids' = baseline_ids \cup init.loaded
       IN  Loaded(initialize_known_markets(known_condition_ids, baseline))
    /\ UNCHANGED <<core_vars, pc, feas_vars, queue_vars, listener_vars, detector_vars,
                   run_vars, depth_fetch, odds_vars, is_running, fetched_ids, emitted,
                   start_calls, polls_started, enable_subgraph>>

\* the poll of call t goes on after an await and runs to the next one
Resumed(t, poll) ==
    /\ known_condition_ids' = poll.known
    /\ consecutive_errors' = poll.consecutive_errors
    /\ emitted' = poll.emitted
    /\ start_calls' = [start_calls EXCEPT
           ![t].at = poll.at, ![t].current = poll.current, ![t].pending = poll.pending]
    /\ UNCHANGED <<core_vars, pc, feas_vars, queue_vars, poll_log, poll_interval,
                   detector_vars, run_vars, depth_fetch, odds_vars,
                   is_running, baseline_ids, fetched_ids, polls_started, enable_subgraph>>

\* `await self._emit_new_market_event(event)` returns (line 265)
EmitNewMarketEventReturns(t) ==
    /\ start_calls[t].at = "emitting"
    /\ Resumed(t, ContinuePoll(start_calls[t].pending, known_condition_ids,
                               consecutive_errors, emitted, enable_subgraph))

SleepOver(t, response) ==
    /\ start_calls[t].at = "sleeping"
    /\ IF is_running
       THEN /\ BeginPoll(t, response, known_condition_ids)
            /\ UNCHANGED is_running
       ELSE /\ is_running' = FALSE
            /\ start_calls' = [start_calls EXCEPT ![t].at = "stopped"]
            /\ UNCHANGED <<known_condition_ids, fetched_ids, polls_started,
                           listener_vars, emitted>>
    /\ UNCHANGED <<core_vars, pc, feas_vars, queue_vars, detector_vars, run_vars,
                   depth_fetch, odds_vars, baseline_ids, enable_subgraph>>

StopListening ==
    /\ is_running
    /\ is_running' = FALSE
    /\ start_calls' = [t \in Callers |->
                          IF start_calls[t].at \in InLoop
                          THEN [start_calls[t] EXCEPT !.stop_requested = TRUE]
                          ELSE start_calls[t]]
    /\ UNCHANGED <<core_vars, pc, feas_vars, queue_vars, listener_vars, detector_vars,
                   run_vars, depth_fetch, odds_vars, known_condition_ids, baseline_ids,
                   fetched_ids, emitted, polls_started, enable_subgraph>>

NextListening ==
    \/ \E t \in Callers, baseline \in BaselineResponses, response \in PollResponses :
          StartListening(t, baseline, response)
    \/ \E baseline \in BaselineResponses : InitializeKnownMarkets(baseline)
    \/ \E t \in Callers : EmitNewMarketEventReturns(t)
    \/ \E t \in Callers, response \in PollResponses : SleepOver(t, response)
    \/ StopListening

SpecListening == InitListening /\ [][NextListening]_vars

----------------------------------------------------------------------------
(* Properties of the listening loop *)

\* the fetch of poll i raised inside _fetch_recent_markets, which logs
\* "Error fetching recent markets"
FetchFailed(i) == poll_log[i].fetch \in {FetchRaises, FetchUnsliceable}

\* the number of polls up to poll i, counting back from it, whose fetch
\* failed with no other fetch in between
RECURSIVE FetchErrorRun(_)
FetchErrorRun(i) ==
    IF i = 0 \/ ~FetchFailed(i) THEN 0 ELSE 1 + FetchErrorRun(i - 1)

\* the fetch of poll i succeeded
FetchSucceeded(i) == poll_log[i].fetch \in {FetchData, FetchEmptyData}

\* C18: a fetch that is at least the third in a row to fail doubles the poll
\* interval up to the cap, the poll interval never exceeds 600 seconds, and
\* a successful fetch leaves the consecutive-error count at 0.
C18_BackoffNeverAboveCap ==
    /\ poll_interval <= 600
    /\ \A i \in 1..Len(poll_log) :
          /\ FetchErrorRun(i) >= 3 =>
                poll_log[i].poll_interval = Min(2 * poll_log[i].interval_before, 600)
          /\ FetchSucceeded(i) => poll_log[i].errors_after_fetch = 0

C30_OneLoopStopsCooperatively ==
    /\ Cardinality({t \in Callers : start_calls[t].at \in InLoop}) <= 1
    /\ \A t \in Callers : ~start_calls[t].polled_after_stop
    /\ (\A t \in Callers : start_calls[t].at \notin InLoop) => ~is_running

====
